---- MODULE Spec2Model ----
(***************************************************************************)
(* Model of the interaction orchestrator of the FRIDAY assistant:         *)
(*   - lib/voice_engine.py  : the utterance queue (speak, stop_speaking,   *)
(*                            the _process_tts_queue consumer thread)      *)
(*   - main.py              : start_listening / stop_listening /           *)
(*                            listen_loop / background_listener and the    *)
(*                            transcript router _handle_recognized_text    *)
(*   - lib/command_processor.py : CommandProcessor.process                 *)
(*   - lib/gesture_controller.py : the frame loop GestureController._run   *)
(*                            and the gesture callbacks of main.py         *)
(***************************************************************************)
EXTENDS Naturals, Integers, Sequences, FiniteSets, TLC

(***************************************************************************)
(* Bounds of the model.                                                    *)
(***************************************************************************)
\* number of speak() calls with non-blank text in one behaviour of SpecTts
MaxSpeak == 3
\* number of stop_speaking() calls in one behaviour of SpecTts
MaxStops == 2
\* the same two numbers in one behaviour of SpecListen
MaxSpeakListen == 2
MaxStopsListen == 2
\* length of an utterance's audio, in polls of the gTTS playback loop
MaxTicks == 1
\* number of listen_loop threads alive at the same time
MaxLoops == 2
\* number of callbacks posted with root.after() and not yet run
MaxPosted == 2
\* the clock of the gesture thread when it starts, in tenths of a second
\* (time.time(): far more than cooldown_s after last_action = 0.0)
Epoch == 20
\* tenths of a second of camera frames in one behaviour of SpecDebounce
MaxElapsed == 33
\* tenths of a second of camera frames in one behaviour of SpecCooldown
MaxElapsedCooldown == 24
\* timers of friday_move pending, and disable_conv_mode threads asleep, at once
MaxTimers == 2
\* GestureController objects, and their _run threads, made in one behaviour
MaxControllers == 2
MaxGestureThreads == 3
\* camera preview worker threads started in one behaviour
MaxPreviewThreads == 2
\* items passed to _yt_enqueue in one behaviour
MaxDownloads == 4

\* the controllers and the threads of the camera
Ctls == 1 .. MaxControllers
GThreads == 1 .. MaxGestureThreads
PThreads == 1 .. MaxPreviewThreads

VARIABLES
    \* ---- lib/voice_engine.py ------------------------------------------
    backend,            \* which TTS backend the imports made available
    tts_queue,          \* queue.Queue: the items not yet dequeued
    unfinished_tasks,   \* queue.Queue.unfinished_tasks
    stop_event,         \* threading.Event
    tts_pc,             \* position of each consumer thread in _process_tts_queue
    tts_cur,            \* the utterance a consumer holds (0: none)
    remaining,          \* polls of audio left of the utterance being played
    nextId,             \* identity of the next utterance speak() enqueues
    ui_pc,              \* position of the caller inside stop_speaking
    ui_op,              \* the operation that called stop_speaking
    stopCalls,          \* number of stop_speaking() calls so far
    speakBudget,        \* the speak() calls the behaviour is bounded to
    stopBudget,         \* the stop_speaking() calls the behaviour is bounded to
    \* ---- main.py: listening ---------------------------------------------
    is_listening,       \* FridayGUI.is_listening
    is_hidden,          \* FridayGUI.is_hidden
    wake_word_enabled,  \* FridayGUI.wake_word_enabled
    loop_pc,            \* position of each listen_loop thread ("dead": no thread)
    bg_pc,              \* position of the background_listener thread
    ui_queue,           \* callbacks posted to the Tk thread with root.after(0, ...)
    \* ---- main.py, lib/command_processor.py, lib/chatbot.py: the router ----
    voice_form,         \* FridayGUI._voice_form (NoForm: None)
    pending_question,   \* CommandProcessor.pending_question ("none": None)
    conversation_mode,  \* CommandProcessor.conversation_mode
    chat_mode_active,   \* FridayChatbot.chat_mode_active
    xo_game_window,     \* CommandProcessor.xo_game_window is not None
    preferences,        \* the keys of CommandProcessor.preferences
    \* ---- history (observations, never read by the program) -------------
    rendered,           \* utterances whose rendering was started
    finished,           \* utterances played to their end
    halted,             \* utterances whose playback was stopped early
    pendingAtStop,      \* utterances that were queued when stop_speaking was called
    stopDuringRender,   \* utterances in render when stop_speaking was called
    stopRaised,         \* stop_speaking() left by an exception
    micOpenedWhileRendering, \* a microphone session was opened during a render
    renderFailed,       \* utterances whose rendering raised in the backend
    heard,              \* the last text the router handled
    entry,              \* how it came in: "voice", "typed", ...
    calls,              \* the handlers the router invoked for it, with their argument
    said,               \* the texts passed to speak() while it was handled
    effects,            \* the side effects started while it was handled
    before,             \* which modes were active when it came in
    transcripts,        \* the transcripts the recognizer delivers in this behaviour
    typed_texts,        \* the texts the user types in this behaviour
    \* ---- lib/gesture_controller.py: GestureController._run ---------------
    now,                \* time.time() at the last frame, in tenths of a second
    last_action,        \* last_action
    two_start,          \* two_start (-1: None)
    two_hold_fired,     \* two_hold_fired
    \* ---- main.py: the gesture capabilities -------------------------------
    mouse_control_enabled,  \* FridayGUI._mouse_control_enabled
    window_move_enabled,    \* FridayGUI._window_move_enabled
    close_window_enabled,   \* FridayGUI._close_window_enabled
    screenshot_enabled,     \* FridayGUI._screenshot_enabled
    fist_action,            \* FridayGUI._fist_action
    window_drag,            \* FridayGUI._window_drag["active"]
    \* ---- history of the gesture thread ------------------------------------
    sample,             \* the finger count of the last frame (-1: no hand)
    emitted,            \* the callbacks the last frame dispatched, in order
    prevGatedAt,        \* time of the cooldown-gated callback before the last one
    lastGatedAt,        \* time of the last cooldown-gated callback (-1: none yet)
    lastGatedKind,      \* which callback that was
    run,                \* the current or last run of two-finger frames
    settled,            \* the last run whose callbacks are all known
    deadline,           \* the time of the last frame this behaviour may take
    \* ---- lib/xo_game.py: the Tic-Tac-Toe window ----------------------------
    board,              \* XOGame.board, row by row
    current_player,     \* XOGame.current_player
    game_over,          \* XOGame.game_over
    friday_pending,     \* root.after(500, self.friday_move) timers not yet run
    conv_threads,       \* disable_conv_mode threads inside time.sleep(10)
    \* ---- main.py and lib/gesture_controller.py: the users of the camera ----
    gesture_controller, \* FridayGUI.gesture_controller: a controller, or 0 for None
    gesture_start_btn,  \* the START GESTURES button is enabled
    ctl_made,           \* GestureController objects constructed so far
    ctl_stop,           \* GestureController._stop of each controller
    ctl_thread,         \* GestureController._thread of each controller, 0 for None
    g_pc,               \* where each _run thread is
    g_ctl,              \* the controller each _run thread belongs to
    gc_op,              \* the last call of the controller's start() or stop()
    camera_preview_stop,    \* FridayGUI._camera_preview_stop
    camera_preview_thread,  \* FridayGUI._camera_preview_thread, 0 for None
    preview_start_btn,  \* the START PREVIEW button is enabled
    p_pc,               \* where each preview worker thread is
    \* ---- main.py: the worker threads of downloads and moves ----------------
    yt_queue,           \* FridayGUI._yt_queue, the items by their number
    yt_made,            \* items passed to _yt_enqueue so far
    yt_active,          \* FridayGUI._yt_active, 0 for None
    yt_pc,              \* where the thread FridayGUI._download_thread names is
    yt_done,            \* the items _download_youtube_once has returned for, each
                        \* with "complete" or "failed"
    move_thread         \* FridayGUI._move_thread is alive

ttsVars == <<backend, tts_queue, unfinished_tasks, stop_event, tts_pc, tts_cur,
             remaining, nextId, ui_pc, ui_op, stopCalls, speakBudget, stopBudget>>
listenVars == <<is_listening, is_hidden, wake_word_enabled, loop_pc, bg_pc, ui_queue>>
histVars == <<rendered, finished, halted, pendingAtStop, stopDuringRender, stopRaised,
              micOpenedWhileRendering, renderFailed>>
routerVars == <<voice_form, pending_question, conversation_mode, chat_mode_active,
                xo_game_window, preferences>>
obsVars == <<heard, entry, calls, said, effects, before, transcripts, typed_texts>>
debounceVars == <<now, last_action, two_start, two_hold_fired, sample, emitted,
                  prevGatedAt, lastGatedAt, lastGatedKind, run, settled, deadline>>
flagVars == <<mouse_control_enabled, window_move_enabled, close_window_enabled,
              screenshot_enabled, fist_action, window_drag>>
xoVars == <<board, current_player, game_over, friday_pending, conv_threads>>
gcVars == <<ctl_stop, ctl_thread, g_pc, g_ctl>>
camVars == <<gesture_controller, gesture_start_btn, ctl_made, gcVars, gc_op,
             camera_preview_stop, camera_preview_thread, preview_start_btn, p_pc>>
ytVars == <<yt_queue, yt_made, yt_active, yt_pc, yt_done>>
workVars == <<xoVars, camVars, ytVars>>
vars == <<ttsVars, listenVars, histVars, routerVars, obsVars, debounceVars, flagVars, workVars,
          move_thread>>

Range(s) == {s[i] : i \in 1 .. Len(s)}

(***************************************************************************)
(* lib/voice_engine.py                                                     *)
(***************************************************************************)
\* The import outcome of lines 9-27: pyttsx3 is preferred when present, gTTS with
\* pygame is the fallback, and with neither the consumer only prints.
Backends == {"pyttsx3", "gtts", "none"}

\* Texts a caller passes to speak(): empty, whitespace only, and a phrase.
Texts == {"", "  ", "hello"}

\* text.strip() for the texts above: leading and trailing blanks removed.
RECURSIVE Strip(_)
Strip(t) ==
    IF Len(t) = 0 THEN t
    ELSE IF SubSeq(t, 1, 1) = " " THEN Strip(SubSeq(t, 2, Len(t)))
    ELSE IF SubSeq(t, Len(t), Len(t)) = " " THEN Strip(SubSeq(t, 1, Len(t) - 1))
    ELSE t

\* `not text or not text.strip()` of speak()
IsBlank(t) == Len(t) = 0 \/ Len(Strip(t)) = 0

\* One consumer thread is started, in VoiceEngine.__init__.
ConsumersTwice == {1, 2}
Consumers == {1}

\* queue.Queue.task_done(): the counter is decremented, and a call with the
\* counter at zero raises ValueError and leaves the counter as it is.
TaskDoneRaises(n) == n = 0
TaskDone(n) == IF n = 0 THEN 0 ELSE n - 1

\* pygame.mixer.music.get_busy(): audio of the gTTS path is playing.
MusicBusy == \E c \in Consumers : tts_pc[c] = "rendering" /\ backend = "gtts" /\ remaining[c] > 0

\* An utterance is audible: pyttsx3 inside say()/runAndWait(), or pygame playing.
Rendering(c) == tts_pc[c] = "rendering" /\ (backend = "gtts" => remaining[c] > 0)

InitTtsBounded(backends, speaks, stops) ==
    /\ backend \in backends
    /\ tts_queue = <<>>
    /\ unfinished_tasks = 0
    /\ stop_event = FALSE
    /\ tts_pc = [c \in Consumers |-> "get"]
    /\ tts_cur = [c \in Consumers |-> 0]
    /\ remaining = [c \in Consumers |-> 0]
    /\ nextId = 1
    /\ ui_pc = "idle"
    /\ ui_op = "none"
    /\ stopCalls = 0
    /\ speakBudget = speaks
    /\ stopBudget = stops
    /\ rendered = {}
    /\ finished = {}
    /\ halted = {}
    /\ pendingAtStop = {}
    /\ stopDuringRender = {}
    /\ stopRaised = FALSE
    /\ micOpenedWhileRendering = FALSE
    /\ renderFailed = {}

\* a speak() without the test of the text
speak_any_text(t) ==
    /\ nextId <= speakBudget
    /\ tts_queue' = Append(tts_queue, nextId)
    /\ unfinished_tasks' = unfinished_tasks + 1
    /\ nextId' = nextId + 1

\* speak(text): a blank text returns at once, any other is put on the queue.
speak(t) ==
    /\ nextId <= speakBudget
    /\ IF IsBlank(t)
       THEN UNCHANGED <<tts_queue, unfinished_tasks, nextId>>
       ELSE /\ tts_queue' = Append(tts_queue, nextId)
            /\ unfinished_tasks' = unfinished_tasks + 1
            /\ nextId' = nextId + 1

\* speak() called by any thread of the program (handlers, timers, the game window)
Speak ==
    /\ \E t \in Texts : speak(t)
    /\ UNCHANGED <<backend, stop_event, tts_pc, tts_cur, remaining, ui_pc, ui_op, stopCalls, speakBudget, stopBudget>>
    /\ UNCHANGED listenVars
    /\ UNCHANGED histVars
    /\ UNCHANGED <<routerVars, obsVars, debounceVars, flagVars, workVars, move_thread>>

\* _process_tts_queue: text = self.tts_queue.get()
tts_get(c) ==
    /\ tts_pc[c] = "get"
    /\ tts_queue # <<>>
    /\ tts_cur' = [tts_cur EXCEPT ![c] = Head(tts_queue)]
    /\ tts_queue' = Tail(tts_queue)
    /\ tts_pc' = [tts_pc EXCEPT ![c] = IF backend = "none" THEN "td1" ELSE "got"]
    /\ UNCHANGED <<backend, unfinished_tasks, stop_event, remaining, nextId, ui_pc, ui_op, stopCalls, speakBudget, stopBudget>>
    /\ UNCHANGED histVars

\* pyttsx3: say(text); runAndWait() is entered.  gTTS: save, load, play().
tts_render_start(c) ==
    /\ tts_pc[c] = "got"
    /\ tts_pc' = [tts_pc EXCEPT ![c] = "rendering"]
    /\ \E n \in 1 .. MaxTicks :
          remaining' = [remaining EXCEPT ![c] = IF backend = "gtts" THEN n ELSE 0]
    /\ rendered' = rendered \cup {tts_cur[c]}
    /\ UNCHANGED <<backend, tts_queue, unfinished_tasks, stop_event, tts_cur, nextId, ui_pc, ui_op, stopCalls, speakBudget, stopBudget>>
    /\ UNCHANGED <<renderFailed, finished, halted, pendingAtStop, stopDuringRender, stopRaised, micOpenedWhileRendering>>

\* pyttsx3: runAndWait() returns when the phrase has been spoken; it never looks
\* at stop_event.
tts_run_and_wait(c) ==
    /\ backend = "pyttsx3"
    /\ tts_pc[c] = "rendering"
    /\ tts_pc' = [tts_pc EXCEPT ![c] = "post"]
    /\ finished' = finished \cup {tts_cur[c]}
    /\ UNCHANGED <<backend, tts_queue, unfinished_tasks, stop_event, tts_cur, remaining, nextId, ui_pc, ui_op, stopCalls, speakBudget, stopBudget>>
    /\ UNCHANGED <<renderFailed, rendered, halted, pendingAtStop, stopDuringRender, stopRaised, micOpenedWhileRendering>>

\* pyttsx3: after the utterance, `if self.stop_event.is_set(): engine.stop();
\* self.stop_event.clear()`.
tts_post(c) ==
    /\ tts_pc[c] = "post"
    /\ stop_event' = FALSE
    /\ tts_pc' = [tts_pc EXCEPT ![c] = "td1"]
    /\ UNCHANGED <<backend, tts_queue, unfinished_tasks, tts_cur, remaining, nextId, ui_pc, ui_op, stopCalls, speakBudget, stopBudget>>
    /\ UNCHANGED histVars

\* gTTS: one turn of `while pygame.mixer.music.get_busy()`: the loop ends when the
\* audio has ended, stops the music when stop_event is set, and sleeps otherwise.
tts_poll(c) ==
    /\ backend = "gtts"
    /\ tts_pc[c] = "rendering"
    /\ IF remaining[c] = 0
       THEN /\ finished' = finished \cup {tts_cur[c]}
            /\ tts_pc' = [tts_pc EXCEPT ![c] = "td2"]
            /\ UNCHANGED <<remaining, halted>>
       ELSE IF stop_event
       THEN /\ halted' = halted \cup {tts_cur[c]}
            /\ remaining' = [remaining EXCEPT ![c] = 0]
            /\ tts_pc' = [tts_pc EXCEPT ![c] = "td2"]
            /\ UNCHANGED finished
       ELSE /\ remaining' = [remaining EXCEPT ![c] = remaining[c] - 1]
            /\ UNCHANGED <<tts_pc, finished, halted>>
    /\ UNCHANGED <<backend, tts_queue, unfinished_tasks, stop_event, tts_cur, nextId, ui_pc, ui_op, stopCalls, speakBudget, stopBudget>>
    /\ UNCHANGED <<renderFailed, rendered, pendingAtStop, stopDuringRender, stopRaised, micOpenedWhileRendering>>

\* a consumer whose thread ends when the backend raises
tts_render_fail_dies(c) ==
    /\ backend \in {"pyttsx3", "gtts"}
    /\ tts_pc[c] \in {"got", "rendering"}
    /\ tts_pc' = [tts_pc EXCEPT ![c] = "dead"]
    /\ remaining' = [remaining EXCEPT ![c] = 0]
    /\ renderFailed' = renderFailed \cup {tts_cur[c]}
    /\ UNCHANGED <<backend, tts_queue, unfinished_tasks, stop_event, tts_cur, nextId, ui_pc, ui_op, stopCalls, speakBudget, stopBudget>>
    /\ UNCHANGED <<rendered, finished, halted, pendingAtStop, stopDuringRender, stopRaised, micOpenedWhileRendering>>

\* The backend raises while it renders: pyttsx3 (init, say, runAndWait) is caught
\* by `except Exception as e: print(...)` and goes on to the inner finally; gTTS
\* and pygame (gTTS(), save, load, play, get_busy) are caught by the outer
\* `except`, after the inner finally has removed the file, and go on to the
\* outer finally.
tts_render_fail(c) ==
    /\ backend \in {"pyttsx3", "gtts"}
    /\ tts_pc[c] \in {"got", "rendering"}
    /\ tts_pc' = [tts_pc EXCEPT ![c] = IF backend = "pyttsx3" THEN "td1" ELSE "td2"]
    /\ remaining' = [remaining EXCEPT ![c] = 0]
    /\ renderFailed' = renderFailed \cup {tts_cur[c]}
    /\ UNCHANGED <<backend, tts_queue, unfinished_tasks, stop_event, tts_cur, nextId, ui_pc, ui_op, stopCalls, speakBudget, stopBudget>>
    /\ UNCHANGED <<rendered, finished, halted, pendingAtStop, stopDuringRender, stopRaised, micOpenedWhileRendering>>

\* The task_done() of the pyttsx3 path's inner `finally` (line 215) and of the
\* no-backend path (line 221); a ValueError is caught by the outer `except`.
tts_task_done_inner(c) ==
    /\ tts_pc[c] = "td1"
    /\ unfinished_tasks' = TaskDone(unfinished_tasks)
    /\ tts_pc' = [tts_pc EXCEPT ![c] = "td2"]
    /\ UNCHANGED <<backend, tts_queue, stop_event, tts_cur, remaining, nextId, ui_pc, ui_op, stopCalls, speakBudget, stopBudget>>
    /\ UNCHANGED histVars

\* The task_done() of the outer `finally` (line 252), which every path runs, the
\* `continue` of the pyttsx3 and no-backend paths included; its ValueError is
\* swallowed.
tts_task_done_outer(c) ==
    /\ tts_pc[c] = "td2"
    /\ unfinished_tasks' = TaskDone(unfinished_tasks)
    /\ tts_pc' = [tts_pc EXCEPT ![c] = "get"]
    /\ tts_cur' = [tts_cur EXCEPT ![c] = 0]
    /\ UNCHANGED <<backend, tts_queue, stop_event, remaining, nextId, ui_pc, ui_op, stopCalls, speakBudget, stopBudget>>
    /\ UNCHANGED histVars

\* stop_speaking(), first statement: self.stop_event.set()
stop_speaking_set(op) ==
    /\ stopCalls < stopBudget
    /\ stopCalls' = stopCalls + 1
    /\ stop_event' = TRUE
    /\ ui_pc' = "drain"
    /\ ui_op' = op
    /\ pendingAtStop' = pendingAtStop \cup Range(tts_queue)
    /\ stopDuringRender' = stopDuringRender \cup {tts_cur[c] : c \in {d \in Consumers : Rendering(d)}}
    /\ UNCHANGED <<backend, unfinished_tasks, tts_pc, tts_cur, remaining, speakBudget, stopBudget>>
    /\ UNCHANGED <<renderFailed, rendered, finished, halted, stopRaised, micOpenedWhileRendering>>

\* Where the Tk thread goes on when stop_speaking() is left: start_listening has
\* its own statements to run, silence_assistant is done.
AfterStop(op) == IF op = "start_listening" THEN "start_rest" ELSE "idle"

\* stop_speaking(): `while not self.tts_queue.empty(): self.tts_queue.get_nowait()`
stop_speaking_get ==
    /\ ui_pc = "drain"
    /\ IF tts_queue = <<>>
       THEN /\ ui_pc' = AfterStop(ui_op)
            /\ UNCHANGED tts_queue
       ELSE /\ tts_queue' = Tail(tts_queue)
            /\ ui_pc' = "task_done"
    /\ UNCHANGED <<backend, unfinished_tasks, stop_event, tts_pc, tts_cur, remaining, nextId, ui_op, stopCalls, speakBudget, stopBudget>>
    /\ UNCHANGED listenVars
    /\ UNCHANGED histVars
    /\ UNCHANGED <<routerVars, obsVars, debounceVars, flagVars, workVars, move_thread>>

\* stop_speaking(): self.tts_queue.task_done(); only queue.Empty is caught, so a
\* ValueError leaves the loop and the function (start_listening swallows it,
\* CommandProcessor.process reports it).
stop_speaking_task_done ==
    /\ ui_pc = "task_done"
    /\ IF TaskDoneRaises(unfinished_tasks)
       THEN /\ stopRaised' = TRUE
            /\ ui_pc' = AfterStop(ui_op)
            /\ UNCHANGED unfinished_tasks
       ELSE /\ unfinished_tasks' = TaskDone(unfinished_tasks)
            /\ ui_pc' = "drain"
            /\ UNCHANGED stopRaised
    /\ UNCHANGED <<backend, tts_queue, stop_event, tts_pc, tts_cur, remaining, nextId, ui_op, stopCalls, speakBudget, stopBudget>>
    /\ UNCHANGED listenVars
    /\ UNCHANGED <<renderFailed, rendered, finished, halted, pendingAtStop, stopDuringRender, micOpenedWhileRendering>>
    /\ UNCHANGED <<routerVars, obsVars, debounceVars, flagVars, workVars, move_thread>>

\* stop_speaking() run from the call to the return with no other thread in
\* between: the queue and the counter it leaves, and whether it raised.
RECURSIVE stop_speaking_run(_, _)
stop_speaking_run(q, n) ==
    IF q = <<>> THEN [queue |-> q, unfinished |-> n, raised |-> FALSE]
    ELSE IF TaskDoneRaises(n) THEN [queue |-> Tail(q), unfinished |-> n, raised |-> TRUE]
    ELSE stop_speaking_run(Tail(q), TaskDone(n))

\* CommandProcessor.silence_assistant: the handler of "shut up", "be quiet"
silence_assistant ==
    /\ ui_pc = "idle"
    /\ stop_speaking_set("silence")
    /\ UNCHANGED <<tts_queue, nextId>>
    /\ UNCHANGED listenVars
    /\ UNCHANGED <<routerVars, obsVars, debounceVars, flagVars, workVars, move_thread>>

Consumer ==
    /\ \E c \in Consumers :
        \/ tts_get(c)
        \/ tts_render_start(c)
        \/ tts_run_and_wait(c)
        \/ tts_post(c)
        \/ tts_poll(c)
        \/ tts_task_done_inner(c)
        \/ tts_task_done_outer(c)
    /\ UNCHANGED listenVars
    /\ UNCHANGED <<routerVars, obsVars, debounceVars, flagVars, workVars, move_thread>>

ConsumerFails ==
    /\ \E c \in Consumers : tts_render_fail(c)
    /\ UNCHANGED listenVars
    /\ UNCHANGED <<routerVars, obsVars, debounceVars, flagVars, workVars, move_thread>>

(***************************************************************************)
(* main.py: the listening loop, the wake-word loop and their controls      *)
(***************************************************************************)
Loops == 1 .. MaxLoops

\* threading.Thread(target=self.listen_loop).start(): the new thread takes the
\* first free slot (threads are interchangeable).
FreeSlots == {i \in Loops : loop_pc[i] = "dead"}
NewThread == CHOOSE i \in FreeSlots : \A j \in FreeSlots : i <= j

InitListen ==
    /\ is_listening = FALSE
    /\ is_hidden = FALSE
    /\ wake_word_enabled = TRUE
    /\ loop_pc = [i \in Loops |-> "dead"]
    /\ bg_pc = "check"
    /\ ui_queue = <<>>

\* start_listening(), called by the Listen button, the space key or the
\* open-hand callback: it begins with voice_engine.stop_speaking().
start_listening ==
    /\ ui_pc = "idle"
    /\ stop_speaking_set("start_listening")
    /\ UNCHANGED <<tts_queue, nextId>>
    /\ UNCHANGED listenVars
    /\ UNCHANGED <<routerVars, obsVars, debounceVars, flagVars, workVars, move_thread>>

\* start_listening() after stop_speaking(): `if self.is_listening: return`, else
\* the flag is set and a listen_loop thread is started.
start_listening_rest ==
    /\ ui_pc = "start_rest"
    /\ IF is_listening
       THEN UNCHANGED <<is_listening, loop_pc>>
       ELSE /\ is_listening' = TRUE
            /\ FreeSlots # {}
            /\ loop_pc' = [loop_pc EXCEPT ![NewThread] = "top"]
    /\ ui_pc' = "idle"
    /\ ui_op' = "none"
    /\ UNCHANGED <<backend, tts_queue, unfinished_tasks, stop_event, tts_pc, tts_cur, remaining, nextId, stopCalls, speakBudget, stopBudget>>
    /\ UNCHANGED <<is_hidden, wake_word_enabled, bg_pc, ui_queue>>
    /\ UNCHANGED histVars
    /\ UNCHANGED <<routerVars, obsVars, debounceVars, flagVars, workVars, move_thread>>

\* stop_listening(), called by the Stop button, the Escape key or a fist gesture
stop_listening ==
    /\ ui_pc = "idle"
    /\ is_listening' = FALSE
    /\ UNCHANGED ttsVars
    /\ UNCHANGED <<is_hidden, wake_word_enabled, loop_pc, bg_pc, ui_queue>>
    /\ UNCHANGED histVars
    /\ UNCHANGED <<routerVars, obsVars, debounceVars, flagVars, workVars, move_thread>>

\* the stop_listening callback an exiting listen_loop posted
stop_listening_posted ==
    /\ ui_pc = "idle"
    /\ ui_queue # <<>>
    /\ Head(ui_queue) = "stop_listening"
    /\ ui_queue' = Tail(ui_queue)
    /\ is_listening' = FALSE
    /\ UNCHANGED ttsVars
    /\ UNCHANGED <<is_hidden, wake_word_enabled, loop_pc, bg_pc>>
    /\ UNCHANGED histVars
    /\ UNCHANGED <<routerVars, obsVars, debounceVars, flagVars, workVars, move_thread>>

\* hide_interface(): is_hidden, stop_listening(), then speak("Standing by.")
hide_interface ==
    /\ ui_pc = "idle"
    /\ is_hidden' = TRUE
    /\ is_listening' = FALSE
    /\ speak("Standing by.")
    /\ UNCHANGED <<backend, stop_event, tts_pc, tts_cur, remaining, ui_pc, ui_op, stopCalls, speakBudget, stopBudget>>
    /\ UNCHANGED <<wake_word_enabled, loop_pc, bg_pc, ui_queue>>
    /\ UNCHANGED histVars
    /\ UNCHANGED <<routerVars, obsVars, debounceVars, flagVars, workVars, move_thread>>

\* show_interface(), posted by the wake-word loop: is_hidden is cleared, the
\* greeting is queued, and start_listening() is entered (its stop_speaking()).
show_interface ==
    /\ ui_pc = "idle"
    /\ ui_queue # <<>>
    /\ Head(ui_queue) = "show_interface"
    /\ ui_queue' = Tail(ui_queue)
    /\ is_hidden' = FALSE
    /\ speak("I'm here. What can I do for you?")
    /\ ui_pc' = "show_start"
    /\ UNCHANGED <<backend, stop_event, tts_pc, tts_cur, remaining, ui_op, stopCalls, speakBudget, stopBudget>>
    /\ UNCHANGED <<is_listening, wake_word_enabled, loop_pc, bg_pc>>
    /\ UNCHANGED histVars
    /\ UNCHANGED <<routerVars, obsVars, debounceVars, flagVars, workVars, move_thread>>

show_interface_start_listening ==
    /\ ui_pc = "show_start"
    /\ stop_speaking_set("start_listening")
    /\ UNCHANGED <<tts_queue, nextId>>
    /\ UNCHANGED listenVars
    /\ UNCHANGED <<routerVars, obsVars, debounceVars, flagVars, workVars, move_thread>>

\* toggle_wake_word(): the switch of the settings panel
toggle_wake_word ==
    /\ ui_pc = "idle"
    /\ wake_word_enabled' = ~wake_word_enabled
    /\ UNCHANGED ttsVars
    /\ UNCHANGED <<is_listening, is_hidden, loop_pc, bg_pc, ui_queue>>
    /\ UNCHANGED histVars
    /\ UNCHANGED <<routerVars, obsVars, debounceVars, flagVars, workVars, move_thread>>

\* listen_loop: `while self.is_listening`; the thread that leaves the loop posts
\* root.after(0, self.stop_listening).
loop_test(i) ==
    /\ loop_pc[i] = "top"
    /\ IF is_listening
       THEN /\ loop_pc' = [loop_pc EXCEPT ![i] = "check"]
            /\ UNCHANGED ui_queue
       ELSE /\ Len(ui_queue) < MaxPosted
            /\ ui_queue' = Append(ui_queue, "stop_listening")
            /\ loop_pc' = [loop_pc EXCEPT ![i] = "dead"]
    /\ UNCHANGED ttsVars
    /\ UNCHANGED <<is_listening, is_hidden, wake_word_enabled, bg_pc>>
    /\ UNCHANGED histVars

\* listen_loop: `if pygame.mixer.get_init() and pygame.mixer.music.get_busy():
\* time.sleep(0.2); continue`
loop_check(i) ==
    /\ loop_pc[i] = "check"
    /\ loop_pc' = [loop_pc EXCEPT ![i] = IF MusicBusy THEN "top" ELSE "listen"]
    /\ UNCHANGED ttsVars
    /\ UNCHANGED <<is_listening, is_hidden, wake_word_enabled, bg_pc, ui_queue>>
    /\ UNCHANGED histVars

\* listen_for_command: `with self.mic as source:` opens the microphone.  A
\* second thread entering the same Microphone object fails, which the `except`
\* of listen_for_command answers with speak("I can't hear you, sir.").
loop_open(i) ==
    /\ loop_pc[i] = "listen"
    /\ IF \E j \in Loops : loop_pc[j] = "mic"
       THEN /\ speak("I can't hear you, sir.")
            /\ loop_pc' = [loop_pc EXCEPT ![i] = "top"]
            /\ UNCHANGED micOpenedWhileRendering
       ELSE /\ loop_pc' = [loop_pc EXCEPT ![i] = "mic"]
            /\ micOpenedWhileRendering' =
                  (micOpenedWhileRendering \/ \E c \in Consumers : Rendering(c))
            /\ UNCHANGED <<tts_queue, unfinished_tasks, nextId>>
    /\ UNCHANGED <<backend, stop_event, tts_pc, tts_cur, remaining, ui_pc, ui_op, stopCalls, speakBudget, stopBudget>>
    /\ UNCHANGED <<is_listening, is_hidden, wake_word_enabled, bg_pc, ui_queue>>
    /\ UNCHANGED <<renderFailed, rendered, finished, halted, pendingAtStop, stopDuringRender, stopRaised>>

\* listen_for_command returns: a transcript, which listen_loop hands to the Tk
\* thread, or, after a timeout or a recognizer error, None with
\* speak("I can't hear you, sir.").
loop_result(i) ==
    /\ loop_pc[i] = "mic"
    /\ loop_pc' = [loop_pc EXCEPT ![i] = "top"]
    /\ \/ UNCHANGED <<tts_queue, unfinished_tasks, nextId>>
       \/ speak("I can't hear you, sir.")
    /\ UNCHANGED <<backend, stop_event, tts_pc, tts_cur, remaining, ui_pc, ui_op, stopCalls, speakBudget, stopBudget>>
    /\ UNCHANGED <<is_listening, is_hidden, wake_word_enabled, bg_pc, ui_queue>>
    /\ UNCHANGED histVars

\* background_listener: the busy check, then listen_offline() while the wake
\* word is enabled and the interface is hidden.
bg_check ==
    /\ bg_pc = "check"
    /\ ~MusicBusy
    /\ wake_word_enabled
    /\ is_hidden
    /\ bg_pc' = "kws"
    /\ micOpenedWhileRendering' = (micOpenedWhileRendering \/ \E c \in Consumers : Rendering(c))
    /\ UNCHANGED ttsVars
    /\ UNCHANGED <<is_listening, is_hidden, wake_word_enabled, loop_pc, ui_queue>>
    /\ UNCHANGED <<renderFailed, rendered, finished, halted, pendingAtStop, stopDuringRender, stopRaised>>
    /\ UNCHANGED <<routerVars, obsVars, debounceVars, flagVars, workVars, move_thread>>

\* listen_offline() returns: "friday" posts show_interface, anything else nothing.
bg_result ==
    /\ bg_pc = "kws"
    /\ bg_pc' = "check"
    /\ \/ UNCHANGED ui_queue
       \/ /\ Len(ui_queue) < MaxPosted
          /\ ui_queue' = Append(ui_queue, "show_interface")
    /\ UNCHANGED ttsVars
    /\ UNCHANGED <<is_listening, is_hidden, wake_word_enabled, loop_pc>>
    /\ UNCHANGED histVars
    /\ UNCHANGED <<routerVars, obsVars, debounceVars, flagVars, workVars, move_thread>>

ListenLoop ==
    /\ \E i \in Loops :
        \/ loop_test(i)
        \/ loop_check(i)
        \/ loop_open(i)
        \/ loop_result(i)
    /\ UNCHANGED <<routerVars, obsVars, debounceVars, flagVars, workVars, move_thread>>

\* The utterance queue with its callers: every other thread of the program
\* reaches it through speak() and stop_speaking() only.
NextTts ==
    \/ Speak
    \/ Consumer
    \/ silence_assistant
    \/ stop_speaking_get
    \/ stop_speaking_task_done
    \/ start_listening
    \/ start_listening_rest
    \/ stop_listening

\* The listening loops beside the utterance queue.
NextListen ==
    \/ Speak
    \/ Consumer
    \/ stop_speaking_get
    \/ stop_speaking_task_done
    \/ start_listening
    \/ start_listening_rest
    \/ stop_listening
    \/ stop_listening_posted
    \/ hide_interface
    \/ show_interface
    \/ show_interface_start_listening
    \/ ListenLoop
    \/ bg_check
    \/ bg_result


(***************************************************************************)
(* Strings, as the router's Python code handles them                       *)
(***************************************************************************)
\* str.lower() on one character, as a table of the upper-case letters
LowerMap ==
    LET upper == "ABCDEFGHIJKLMNOPQRSTUVWXYZ"
        lower == "abcdefghijklmnopqrstuvwxyz"
    IN  [ch \in {SubSeq(upper, k, k) : k \in 1 .. Len(upper)} |->
            LET k == CHOOSE k \in 1 .. Len(upper) : SubSeq(upper, k, k) = ch
            IN  SubSeq(lower, k, k)]
LowerChar(ch) == IF ch \in DOMAIN LowerMap THEN LowerMap[ch] ELSE ch

\* str.lower()
RECURSIVE Lower(_)
Lower(t) == IF Len(t) = 0 THEN t ELSE LowerChar(SubSeq(t, 1, 1)) \o Lower(SubSeq(t, 2, Len(t)))

\* `sub in t`
Contains(t, sub) ==
    \E k \in 1 .. (Len(t) + 1 - Len(sub)) : SubSeq(t, k, k + Len(sub) - 1) = sub

\* t.startswith(prefix)
StartsWith(t, prefix) == Len(prefix) <= Len(t) /\ SubSeq(t, 1, Len(prefix)) = prefix

\* t.replace(old, ""), for a non-empty old
RECURSIVE Remove(_, _)
Remove(t, old) ==
    IF Len(t) < Len(old) THEN t
    ELSE IF SubSeq(t, 1, Len(old)) = old THEN Remove(SubSeq(t, Len(old) + 1, Len(t)), old)
    ELSE SubSeq(t, 1, 1) \o Remove(SubSeq(t, 2, Len(t)), old)

\* t.split(sep)[-1]: what follows the last occurrence of sep (all of t without one)
AfterLast(t, sep) ==
    IF ~Contains(t, sep) THEN t
    ELSE LET k == CHOOSE k \in 1 .. (Len(t) + 1 - Len(sep)) :
                     /\ SubSeq(t, k, k + Len(sep) - 1) = sep
                     /\ \A m \in 1 .. (Len(t) + 1 - Len(sep)) :
                            SubSeq(t, m, m + Len(sep) - 1) = sep => m <= k
         IN  SubSeq(t, k + Len(sep), Len(t))

\* index of the first occurrence of sub in t (t contains sub)
FirstIndex(t, sub) ==
    CHOOSE k \in 1 .. (Len(t) + 1 - Len(sub)) :
        /\ SubSeq(t, k, k + Len(sub) - 1) = sub
        /\ \A m \in 1 .. (k - 1) : SubSeq(t, m, m + Len(sub) - 1) # sub

\* t.split(): the words of t
RECURSIVE Split(_)
Split(t) ==
    LET s == Strip(t)
    IN  IF Len(s) = 0 THEN <<>>
        ELSE IF ~Contains(s, " ") THEN <<s>>
        ELSE <<SubSeq(s, 1, FirstIndex(s, " ") - 1)>>
                 \o Split(SubSeq(s, FirstIndex(s, " ") + 1, Len(s)))

\* t.strip(chars)
RECURSIVE StripChars(_, _)
StripChars(t, chars) ==
    IF Len(t) = 0 THEN t
    ELSE IF Contains(chars, SubSeq(t, 1, 1)) THEN StripChars(SubSeq(t, 2, Len(t)), chars)
    ELSE IF Contains(chars, SubSeq(t, Len(t), Len(t))) THEN StripChars(SubSeq(t, 1, Len(t) - 1), chars)
    ELSE t

\* t.replace(old, new) for a single character old
RECURSIVE ReplaceChar(_, _, _)
ReplaceChar(t, old, new) ==
    IF Len(t) = 0 THEN t
    ELSE (IF SubSeq(t, 1, 1) = old THEN new ELSE SubSeq(t, 1, 1))
             \o ReplaceChar(SubSeq(t, 2, Len(t)), old, new)

\* re.search(r'(http[s]?://\S+|www\.\S+|\S+\.\S+)', t) finds something
UrlMatch(t) ==
    \/ \E k \in 1 .. Len(t) :
          /\ SubSeq(t, k, k) # " "
          /\ \E pre \in {"http://", "https://", "www."} :
                /\ k > Len(pre)
                /\ SubSeq(t, k - Len(pre), k - 1) = pre
    \/ \E k \in 2 .. Len(t) - 1 :
          /\ SubSeq(t, k, k) = "."
          /\ SubSeq(t, k - 1, k - 1) # " "
          /\ SubSeq(t, k + 1, k + 1) # " "

(***************************************************************************)
(* lib/command_processor.py and lib/chatbot.py                             *)
(***************************************************************************)
\* CommandProcessor._initialize_commands: the dict, in its insertion order,
\* which is the order `for key, handler in self.commands.items()` scans.
CommandTable == <<
    <<"time", "get_time">>,
    <<"date", "get_date">>,
    <<"friday", "handle_friday_name">>,
    <<"bye", "say_goodbye">>,
    <<"goodbye", "say_goodbye">>,
    <<"shutdown", "shutdown_system">>,
    <<"power off", "shutdown_system">>,
    <<"open", "open_url_or_app">>,
    <<"search", "search">>,
    <<"research", "research">>,
    <<"learn", "handle_learn_command">>,
    <<"learn about", "handle_learn_command">>,
    <<"let's chat", "start_chat_mode">>,
    <<"let chat", "start_chat_mode">>,
    <<"chat", "start_chat_mode">>,
    <<"talk", "start_chat_mode">>,
    <<"activate chatbot", "activate_chatbot">>,
    <<"chatbot mode", "activate_chatbot">>,
    <<"chat mode", "activate_chatbot">>,
    <<"deactivate chatbot", "deactivate_chatbot">>,
    <<"exit chatbot", "deactivate_chatbot">>,
    <<"i'm bored", "handle_bored">>,
    <<"im bored", "handle_bored">>,
    <<"i am bored", "handle_bored">>,
    <<"weather", "get_weather_info">>,
    <<"app", "launch_app">>,
    <<"hello", "greet">>,
    <<"help", "show_help">>,
    <<"tell", "handle_tell_command">>,
    <<"execute", "execute_command">>,
    <<"mouse", "handle_mouse">>,
    <<"click", "handle_mouse">>,
    <<"copy", "handle_shortcuts">>,
    <<"paste", "handle_shortcuts">>,
    <<"tab", "handle_shortcuts">>,
    <<"scroll", "handle_mouse">>,
    <<"write", "handle_writing">>,
    <<"type", "handle_writing">>,
    <<"youtube", "play_on_youtube">>,
    <<"play", "play_on_youtube">>,
    <<"shut up", "silence_assistant">>,
    <<"stop talking", "silence_assistant">>,
    <<"be quiet", "silence_assistant">>,
    <<"tell me about", "perform_research">>,
    <<"what is", "perform_research">>,
    <<"play a game", "start_game">>,
    <<"guess", "play_guess">>,
    <<"rock paper scissors", "play_rps">>,
    <<"rock", "play_rps">>,
    <<"paper", "play_rps">>,
    <<"scissors", "play_rps">>,
    <<"rock paper", "play_rps">>,
    <<"xo", "start_xo_game">>,
    <<"tic tac toe", "start_xo_game">>,
    <<"tic-tac-toe", "start_xo_game">> >>

\* `for key, handler in self.commands.items(): if key in command:` from entry k
\* on: the index of the first entry whose key is in the command, 0 for none.
RECURSIVE ScanLast(_, _)
ScanLast(cmd, k) ==
    IF k < 1 THEN 0
    ELSE IF Contains(cmd, CommandTable[k][1]) THEN k
    ELSE ScanLast(cmd, k - 1)
RECURSIVE ScanFrom(_, _)
ScanFrom(cmd, k) ==
    IF k > Len(CommandTable) THEN 0
    ELSE IF Contains(cmd, CommandTable[k][1]) THEN k
    ELSE ScanFrom(cmd, k + 1)

MatchLastKey(cmd) == ScanLast(cmd, Len(CommandTable))
MatchKey(cmd) == ScanFrom(cmd, 1)

\* process(), steps 1 and 2: `if "search" in command` comes before
\* `any(word in command for word in ["research", "tell me about", "what is"])`.
HighPriorityResearchFirst(cmd) ==
    IF Contains(cmd, "research") \/ Contains(cmd, "tell me about") \/ Contains(cmd, "what is")
    THEN "handle_tell_command"
    ELSE IF Contains(cmd, "search") THEN "search"
    ELSE "none"
HighPriority(cmd) ==
    IF Contains(cmd, "search") THEN "search"
    ELSE IF Contains(cmd, "research") \/ Contains(cmd, "tell me about") \/ Contains(cmd, "what is")
    THEN "handle_tell_command"
    ELSE "none"

\* CommandProcessor._is_casual_response: the six patterns, matched at the start
IsCasual(cmd) ==
    \/ cmd \in {"yes", "yeah", "yep", "yup", "no", "nope", "nah", "ok", "okay", "sure",
                "alright", "fine", "cool"}
    \/ \E pre \in {"it was", "it's", "it is", "they were", "they're"} : StartsWith(cmd, pre)
    \/ \E v \in {"like", "prefer", "love", "hate", "enjoy", "think", "feel", "want", "need"} :
          StartsWith(cmd, "i " \o v)
    \/ \E pre \in {"that's", "that is", "this is", "these are"} : StartsWith(cmd, pre)
    \/ \E pre \in {"good", "great", "fine", "okay", "bad", "terrible", "amazing", "awesome",
                   "nice", "cool"} : StartsWith(cmd, pre)
    \/ \E v \in {"go", "travel", "visit", "choose", "pick"} : StartsWith(cmd, "i would " \o v)

(***************************************************************************)
(* The router works on the state below: the mode cells of FridayGUI,       *)
(* CommandProcessor and FridayChatbot, and what handling one text did.     *)
(*   calls   : the handlers the router itself invoked, with their argument *)
(*   said    : the texts passed to voice_engine.speak(), in order          *)
(*   effects : the side effects started outside the assistant              *)
(*   raised  : the handler was left by an exception                        *)
(*   handled : the value process() returned                                *)
(***************************************************************************)
\* self._voice_form = None
NoForm == [mode |-> "none", step |-> "none", name |-> "", dest_dir |-> "", src |-> "", dst |-> ""]

\* What the world answers while one text is handled: `ok` is a lookup that
\* finds something (search results, an existing directory, a permitted
\* operation), `raises` is a library call that raises (pyautogui, the queue's
\* task_done, makedirs of the new folder, the game window), `dirs` the folders
\* of the home, `exists` whether the path of the new folder is taken.
Envs == {
    [ok |-> TRUE,  raises |-> FALSE, dirs |-> {"Desktop", "Downloads", "Documents"}, exists |-> FALSE],
    [ok |-> FALSE, raises |-> FALSE, dirs |-> {"Documents"}, exists |-> FALSE],
    [ok |-> TRUE,  raises |-> TRUE,  dirs |-> {}, exists |-> FALSE],
    [ok |-> TRUE,  raises |-> FALSE, dirs |-> {"Desktop", "Documents"}, exists |-> TRUE] }

\* voice_engine.speak(text) as the handlers call it
Say(r, text) == IF IsBlank(text) THEN r ELSE [r EXCEPT !.said = Append(@, text)]

Called(r, f, arg) == [r EXCEPT !.calls = Append(@, <<f, arg>>)]
Effect(r, what) == [r EXCEPT !.effects = Append(@, what)]
Raise(r) == [r EXCEPT !.raised = TRUE]

\* datetime.now().strftime("%I:%M %p") at some moment
get_time(r, command) == Say(r, "The current time is " \o "09:30 AM")

\* datetime.now().strftime("%A, %B %d, %Y") at some moment
get_date(r, command) == Say(r, "Today is " \o "Thursday, November 05, 2026")

greet(r, command) == Say(r, "Hey man, what's up?")

handle_friday_name(r, command) ==
    IF Contains(command, "friday") THEN Say(r, "Uhm, yes sir, what's up?") ELSE greet(r, command)

say_goodbye(r, command) == Say(r, "See you later, dude!")

shutdown_system(r, command, e) ==
    LET r1 == Effect(Say(r, "Understood. Attempting to shut the system down now."), "shutdown now")
    IN  IF e.ok THEN r1
        ELSE Say(r1, "I was not allowed to shut the system down. Please run me with the required permissions.")

open_url_or_app(r, command, e) ==
    IF UrlMatch(command)
    THEN IF e.raises THEN Say(r, "Could not open URL")
         ELSE Say(Effect(r, "webbrowser.open"), "Opening url")
    ELSE Say(r, "Please provide a valid URL")

search(r, command, e) ==
    LET topic == Strip(Remove(Remove(command, "search"), "for"))
    IN  IF Len(topic) = 0 THEN r
        ELSE LET r1 == Say(r, "Searching for " \o topic)
             IN  IF e.ok THEN Say(r1, "Found results for " \o topic)
                 ELSE Say(r1, "Could not find any results")

research(r, command, e) ==
    LET topic == Strip(Remove(command, "research"))
    IN  IF Len(topic) = 0 THEN r
        ELSE LET r1 == Say(r, "Researching " \o topic)
             IN  IF e.ok THEN Say(Say(r1, "Found information about " \o topic), "title")
                 ELSE Say(r1, "Could not find research results")

perform_research(r, topic, e) ==
    IF Len(topic) = 0 THEN Say(r, "What would you like to know about?")
    ELSE LET r1 == Say(r, "Looking up " \o topic \o " for you.")
         IN  IF e.ok THEN Say(r1, "summary")
             ELSE Say(r1, "I'm sorry, I couldn't find a page for that topic.")

handle_learn_command(r, command, e) ==
    LET topic == IF StartsWith(command, "learn about")
                 THEN Strip(SubSeq(command, Len("learn about") + 1, Len(command)))
                 ELSE IF StartsWith(command, "learn")
                 THEN Strip(SubSeq(command, Len("learn") + 1, Len(command)))
                 ELSE IF StartsWith(command, "study")
                 THEN Strip(SubSeq(command, Len("study") + 1, Len(command)))
                 ELSE IF StartsWith(command, "find out about")
                 THEN Strip(SubSeq(command, Len("find out about") + 1, Len(command)))
                 ELSE command
    IN  IF Len(topic) = 0 THEN Say(r, "What would you like me to learn about?")
        ELSE perform_research(
                 research(Say(r, "Let me learn about " \o topic \o " for you."),
                          "research " \o topic, e),
                 topic, e)

get_weather_info(r, command, e) ==
    Say(r, IF e.ok THEN "weather report" ELSE "Could not retrieve weather information")

handle_tell_command(r, command, e) ==
    IF Contains(command, "time") THEN get_time(r, command)
    ELSE IF Contains(command, "date") THEN get_date(r, command)
    ELSE IF Contains(command, "weather") THEN get_weather_info(r, command, e)
    ELSE LET words == Strip(AfterLast(command, "tell me"))
         IN  IF Len(words) = 0 THEN r ELSE research(r, "research " \o words, e)

launch_app(r, command, e) ==
    LET app_name == Strip(Remove(Remove(command, "open"), "app"))
    IN  IF Len(app_name) = 0 THEN r
        ELSE LET r1 == Effect(Say(r, "Opening " \o app_name), "open_application")
             IN  IF e.ok THEN r1 ELSE Say(r1, "Could not find or open " \o app_name)

show_help(r, command) ==
    Say(r, "Showing help. Check the console for a complete list of commands.")

execute_command(r, command, e) ==
    LET cmd == Strip(Remove(command, "execute"))
    IN  IF Len(cmd) = 0 THEN r
        ELSE Say(Effect(r, "execute_system_command"),
                 IF e.ok THEN "Command executed successfully" ELSE "Command timed out")

handle_mouse(r, command, e) ==
    IF \E w \in {"up", "down", "left", "right", "double", "click", "scroll down", "scroll up"} :
           Contains(command, w)
    THEN IF e.raises THEN Raise(r) ELSE Effect(r, "pyautogui")
    ELSE r

handle_shortcuts(r, command, e) ==
    IF Contains(command, "copy")
    THEN IF e.raises THEN Raise(r) ELSE Say(Effect(r, "pyautogui"), "Copied")
    ELSE IF Contains(command, "paste")
    THEN IF e.raises THEN Raise(r) ELSE Say(Effect(r, "pyautogui"), "Pasted")
    ELSE IF Contains(command, "tab")
    THEN IF e.raises THEN Raise(r) ELSE Effect(r, "pyautogui")
    ELSE r

handle_writing(r, command, e) ==
    LET text_to_type == Strip(Remove(Remove(command, "write"), "type"))
    IN  IF Len(text_to_type) = 0 THEN r
        ELSE IF e.raises THEN Raise(r)
        ELSE Say(Effect(r, "pyautogui"), "Typed: " \o text_to_type)

play_on_youtube(r, command, e) ==
    LET query == Strip(Remove(Remove(Remove(command, "play"), "youtube"), "search"))
    IN  IF Len(query) = 0 THEN Say(r, "What would you like me to play?")
        ELSE Effect(Say(r, "Playing " \o query \o " on YouTube, sir."), "youtube")

\* silence_assistant as a table handler: stop_speaking() sets the event and
\* drains the queue; its ValueError (see stop_speaking_task_done) leaves it.
silence_assistant_handler(r, command, e) ==
    LET r1 == [r EXCEPT !.stop_event = TRUE]
    IN  IF e.raises THEN Raise(r1) ELSE r1

start_game(r, command) ==
    Say(r, "I have two games: Guess the Number or Rock Paper Scissors. Which one do you want?")

\* `random` is the function imported by `from random import random`, so
\* random.randint and random.choice raise AttributeError at the first line.
play_guess(r, command) == Raise(r)

play_rps(r, command) == Raise(r)

start_chat_mode(r, command) ==
    [Say([r EXCEPT !.conversation_mode = TRUE],
         "Alright dude, chat mode. What's your favorite song?")
        EXCEPT !.pending_question = "favorite_song"]

\* FridayChatbot.activate
activate(r) == Say([r EXCEPT !.chat_mode_active = TRUE], "chatbot greeting")

\* FridayChatbot.deactivate
deactivate(r) == Say([r EXCEPT !.chat_mode_active = FALSE], "chatbot farewell")

activate_chatbot(r, command) == activate(r)

deactivate_chatbot(r, command) == deactivate(r)

\* FridayChatbot.process_message
process_message(r, user_input) ==
    IF ~r.chat_mode_active THEN r ELSE Say(r, "chatbot response")

handle_bored(r, command, e) ==
    IF r.preferences = {}
    THEN Say(r, "Uhm, bored huh? Let's set your favorites first. Say 'activate chatbot' or 'let's chat'.")
    ELSE IF "favorite_song" \in r.preferences
    THEN play_on_youtube(Say(r, "Alright dude, let's fix that boredom-music time."),
                         "play favorite song", e)
    ELSE IF "favorite_app" \in r.preferences
    THEN Effect(Say(r, "Alright bro, opening your favorite app."), "open_application")
    ELSE Effect(Say(r, "Uhm, let's pull up a verse real quick, bro."), "webbrowser.open")

\* start_xo_game: one window at most; a failure to build it is reported.
start_xo_game(r, command, e) ==
    IF r.xo_game_window THEN Say(r, "The game window is already open!")
    ELSE IF e.raises THEN Say(r, "I couldn't start the game. Sorry!")
    ELSE [r EXCEPT !.xo_game_window = TRUE]

\* on_game_end, the callback of the game window's close button
on_game_end(r) ==
    Say([r EXCEPT !.xo_game_window = FALSE, !.conversation_mode = FALSE], "Final score")

handle_pending_answer(r, text) ==
    LET q == r.pending_question
        answer == Strip(text)
        r0 == [r EXCEPT !.pending_question = "none"]
    IN  IF Len(answer) = 0
        THEN [Say(r0, "Uhm, say it again bro-what was it?") EXCEPT !.pending_question = q]
        ELSE LET r1 == Say([r0 EXCEPT !.preferences = @ \cup {q}], "Okay dude, got you.")
             IN  IF q = "favorite_song"
                 THEN [Say(r1, "Alright-what's your favorite app to open? Like VS Code, Firefox, whatever.")
                          EXCEPT !.pending_question = "favorite_app"]
                 ELSE IF q = "favorite_app"
                 THEN [Say(r1, "Last one-got a favorite Bible verse or just say 'none'.")
                          EXCEPT !.pending_question = "favorite_bible_verse"]
                 ELSE IF q = "favorite_bible_verse"
                 THEN [Say(r1, "Cool. I'll remember that, bro. If you say 'I'm bored', I'll help you chill.")
                          EXCEPT !.conversation_mode = FALSE]
                 ELSE [r1 EXCEPT !.conversation_mode = FALSE]

handle_casual_response(r, text) ==
    IF \E w \in {"good", "great", "fine", "okay", "nice", "cool", "awesome", "amazing"} :
           Contains(Lower(text), w)
    THEN Say(r, "Nice, dude!")
    ELSE IF \E w \in {"bad", "terrible", "awful", "sucks"} : Contains(Lower(text), w)
    THEN Say(r, "Ah man, that's rough.")
    ELSE IF \E w \in {"yes", "yeah", "yep", "sure", "okay", "alright"} : Contains(Lower(text), w)
    THEN Say(r, "Alright, cool.")
    ELSE IF \E w \in {"no", "nope", "nah"} : Contains(Lower(text), w)
    THEN Say(r, "Got it, dude.")
    ELSE Say(r, "Thanks for sharing that, man.")

\* handler(command) for the handler a table entry names
RunHandler(h, r, command, e) ==
    CASE h = "get_time" -> get_time(r, command)
      [] h = "get_date" -> get_date(r, command)
      [] h = "handle_friday_name" -> handle_friday_name(r, command)
      [] h = "say_goodbye" -> say_goodbye(r, command)
      [] h = "shutdown_system" -> shutdown_system(r, command, e)
      [] h = "open_url_or_app" -> open_url_or_app(r, command, e)
      [] h = "search" -> search(r, command, e)
      [] h = "research" -> research(r, command, e)
      [] h = "handle_learn_command" -> handle_learn_command(r, command, e)
      [] h = "start_chat_mode" -> start_chat_mode(r, command)
      [] h = "activate_chatbot" -> activate_chatbot(r, command)
      [] h = "deactivate_chatbot" -> deactivate_chatbot(r, command)
      [] h = "handle_bored" -> handle_bored(r, command, e)
      [] h = "get_weather_info" -> get_weather_info(r, command, e)
      [] h = "launch_app" -> launch_app(r, command, e)
      [] h = "greet" -> greet(r, command)
      [] h = "show_help" -> show_help(r, command)
      [] h = "handle_tell_command" -> handle_tell_command(r, command, e)
      [] h = "execute_command" -> execute_command(r, command, e)
      [] h = "handle_mouse" -> handle_mouse(r, command, e)
      [] h = "handle_shortcuts" -> handle_shortcuts(r, command, e)
      [] h = "handle_writing" -> handle_writing(r, command, e)
      [] h = "play_on_youtube" -> play_on_youtube(r, command, e)
      [] h = "silence_assistant" -> silence_assistant_handler(r, command, e)
      [] h = "perform_research" -> perform_research(r, command, e)
      [] h = "start_game" -> start_game(r, command)
      [] h = "play_guess" -> play_guess(r, command)
      [] h = "play_rps" -> play_rps(r, command)
      [] h = "start_xo_game" -> start_xo_game(r, command, e)

\* CommandProcessor.process(command)
process(r, text, e) ==
    IF Len(text) = 0 THEN [r EXCEPT !.handled = FALSE]
    ELSE
    LET command == Lower(Strip(text))
    IN  IF r.chat_mode_active
        THEN [process_message(Called(r, "process_message", command), command)
                EXCEPT !.handled = TRUE]
        ELSE IF r.pending_question # "none"
        THEN [handle_pending_answer(Called(r, "handle_pending_answer", command), command)
                EXCEPT !.handled = TRUE]
        ELSE IF IsCasual(command)
        THEN [handle_casual_response(Called(r, "handle_casual_response", command), command)
                EXCEPT !.handled = TRUE]
        ELSE IF HighPriority(command) = "search"
        THEN [search(Called(r, "search", command), command, e) EXCEPT !.handled = TRUE]
        ELSE IF HighPriority(command) = "handle_tell_command"
        THEN [handle_tell_command(Called(r, "handle_tell_command", command), command, e)
                EXCEPT !.handled = TRUE]
        ELSE IF MatchKey(command) # 0
        THEN LET k == MatchKey(command)
                 h == CommandTable[k][2]
                 out == RunHandler(h, Called(r, h, command), command, e)
             IN  IF out.raised
                 THEN [Say(out, "Error: exception") EXCEPT !.handled = FALSE, !.raised = FALSE]
                 ELSE [out EXCEPT !.handled = TRUE]
        ELSE IF r.conversation_mode
        THEN [handle_casual_response(Called(r, "handle_casual_response", command), command)
                EXCEPT !.handled = TRUE]
        ELSE [Say(r, "Uhm, I didn't catch that, bro.") EXCEPT !.handled = FALSE]

(***************************************************************************)
(* main.py: the voice forms and the two entries of the router              *)
(***************************************************************************)
\* os.path.expanduser("~")
Home == "/home/user"

\* os.path.expanduser(p)
expanduser(p) == IF StartsWith(p, "~") THEN Home \o SubSeq(p, 2, Len(p)) ELSE p

\* _default_user_location: the first of Desktop, Downloads, Documents that exists
default_user_location(e) ==
    IF "Desktop" \in e.dirs THEN Home \o "/Desktop"
    ELSE IF "Downloads" \in e.dirs THEN Home \o "/Downloads"
    ELSE IF "Documents" \in e.dirs THEN Home \o "/Documents"
    ELSE Home

\* _extract_folder_name
extract_folder_name(text) ==
    LET t0 == Strip(text)
        cut(prefix) == Strip(SubSeq(t0, Len(prefix) + 1, Len(t0)))
        t1 == IF StartsWith(Lower(t0), "name it") THEN cut("name it")
              ELSE IF StartsWith(Lower(t0), "call it") THEN cut("call it")
              ELSE IF StartsWith(Lower(t0), "folder name") THEN cut("folder name")
              ELSE IF StartsWith(Lower(t0), "the name is") THEN cut("the name is")
              ELSE t0
        t2 == Strip(StripChars(t1, "\"' "))
    IN  Strip(ReplaceChar(ReplaceChar(t2, "/", " "), "\\", " "))

\* _location_from_speech; the empty string stands for None
location_from_speech(text) ==
    LET t == Lower(text)
    IN  IF Contains(t, "desktop") THEN Home \o "/Desktop"
        ELSE IF Contains(t, "downloads") THEN Home \o "/Downloads"
        ELSE IF Contains(t, "documents") THEN Home \o "/Documents"
        ELSE IF Contains(t, "home") THEN Home
        ELSE IF StartsWith(t, "/") \/ (Contains(t, ":") /\ Contains(t, "\\")) THEN Strip(text)
        ELSE IF Contains(t, "path ")
        THEN Strip(SubSeq(text, FirstIndex(text, " ") + 1, Len(text)))
        ELSE ""

\* _voice_form_reset
voice_form_reset(r) == [r EXCEPT !.voice_form = NoForm]

\* _voice_form_start_create_folder
voice_form_start_create_folder(r, e) ==
    IF r.voice_form.mode # "none" THEN r
    ELSE Say([r EXCEPT !.voice_form = [NoForm EXCEPT !.mode = "create_folder", !.step = "name",
                                                     !.dest_dir = default_user_location(e)]],
             "What should I name the folder?")

\* _voice_form_start_move_folder without its test of the active form
voice_form_start_move_folder_always(r) ==
    Say([r EXCEPT !.voice_form = [NoForm EXCEPT !.mode = "move_folder", !.step = "source"]],
        "Tell me the source folder path.")

\* _voice_form_start_move_folder
voice_form_start_move_folder(r) ==
    IF r.voice_form.mode # "none" THEN r
    ELSE Say([r EXCEPT !.voice_form = [NoForm EXCEPT !.mode = "move_folder", !.step = "source"]],
             "Tell me the source folder path.")

\* _unique_path: the path, or the path with " (1)" when the path is taken
unique_path(path, e) == IF e.exists THEN path \o " (1)" ELSE path

\* os.path.isdir(path): the home is there, its folders are those of the
\* world, any other path is there when the world says so
isdir(path, e) ==
    IF path = Home THEN TRUE
    ELSE IF \E d \in {"Desktop", "Downloads", "Documents"} : path = Home \o "/" \o d
    THEN \E d \in e.dirs : path = Home \o "/" \o d
    ELSE e.ok

\* _voice_form_create_folder_now creating in the default location instead of
\* the location the form holds
voice_form_create_folder_now_default(r, e) ==
    LET name == Strip(r.voice_form.name)
        target == unique_path(default_user_location(e) \o "/" \o name, e)
    IN  IF r.voice_form.mode = "none" \/ Len(name) = 0 THEN r
        ELSE IF e.raises THEN Say(r, "I couldn't create that folder.")
        ELSE voice_form_reset(Say(Effect(r, "makedirs " \o target), "Folder created."))

\* _voice_form_create_folder_now: os.makedirs(dest_dir, exist_ok=True) makes
\* the destination when it is missing (or raises), os.makedirs(target) makes
\* the folder (or raises).
voice_form_create_folder_now(r, e) ==
    LET name == Strip(r.voice_form.name)
        dest_dir == Strip(r.voice_form.dest_dir)
        r1 == IF isdir(dest_dir, e) THEN r ELSE Effect(r, "makedirs " \o dest_dir)
        target == unique_path(dest_dir \o "/" \o name, e)
    IN  IF r.voice_form.mode = "none" \/ Len(name) = 0 THEN r
        ELSE IF ~isdir(dest_dir, e) /\ ~e.ok THEN Say(r, "I couldn't access that location.")
        ELSE IF e.raises THEN Say(r1, "I couldn't create that folder.")
        ELSE voice_form_reset(Say(Effect(r1, "makedirs " \o target), "Folder created."))

\* _voice_form_handle_create_folder taking any answer of the first step as the name
voice_form_handle_create_folder_any_name(r, text, e) ==
    IF r.voice_form.step = "name"
    THEN Say([r EXCEPT !.voice_form.name = extract_folder_name(text),
                       !.voice_form.step = "location_or_confirm"],
             "Where should I create it? Say desktop, downloads, documents, home, or say confirm.")
    ELSE IF r.voice_form.step = "location_or_confirm"
              /\ (Contains(Lower(text), "confirm") \/ Lower(Strip(text)) \in {"create", "go ahead"})
    THEN voice_form_create_folder_now(r, e)
    ELSE r

\* _voice_form_handle_create_folder
voice_form_handle_create_folder(r, text, e) ==
    IF r.voice_form.step = "name"
    THEN LET name == extract_folder_name(text)
         IN  IF Len(name) = 0 THEN Say(r, "I didn't catch the name. Please say it again.")
             ELSE Say([r EXCEPT !.voice_form.name = name,
                                !.voice_form.step = "location_or_confirm"],
                      "Where should I create it? Say desktop, downloads, documents, home, or say confirm.")
    ELSE IF r.voice_form.step = "location_or_confirm"
    THEN IF Contains(Lower(text), "confirm") \/ Lower(Strip(text)) \in {"create", "go ahead"}
         THEN voice_form_create_folder_now(r, e)
         ELSE LET loc == location_from_speech(text)
              IN  IF Len(loc) # 0
                  THEN Say([r EXCEPT !.voice_form.dest_dir = expanduser(loc)],
                           "Say confirm to create the folder.")
                  ELSE Say(r, "Say desktop, downloads, documents, home, or confirm.")
    ELSE r

\* _voice_form_handle_move_folder; os.path.isdir() is the world's answer
\* start_folder_move: the checks of the two paths and of a move still running,
\* then the thread of _move_folder_worker
start_folder_move(r, src, dst, e) ==
    IF src = "" \/ dst = "" THEN Effect(r, "messagebox Missing paths")
    ELSE IF ~isdir(src, e) THEN Effect(r, "messagebox Invalid source")
    ELSE IF ~isdir(dst, e) THEN Effect(r, "messagebox Invalid destination")
    ELSE IF r.move_thread THEN Effect(r, "messagebox Move busy")
    ELSE Effect([r EXCEPT !.move_thread = TRUE], "move_folder_worker " \o src \o " " \o dst)

voice_form_handle_move_folder(r, text, e) ==
    LET loc == location_from_speech(text)
        path == expanduser(IF Len(loc) # 0 THEN loc ELSE Strip(text))
    IN  IF r.voice_form.step = "source"
        THEN IF ~isdir(path, e)
             THEN Say(r, "That source folder does not exist. Please say the full path again.")
             ELSE Say([r EXCEPT !.voice_form.src = path, !.voice_form.step = "destination"],
                      "Now tell me the destination folder path.")
        ELSE IF r.voice_form.step = "destination"
        THEN IF ~isdir(path, e)
             THEN Say(r, "That destination folder does not exist. Please say the full path again.")
             ELSE Say([r EXCEPT !.voice_form.dst = path, !.voice_form.step = "confirm"],
                      "Say confirm to move the folder.")
        ELSE IF r.voice_form.step = "confirm"
        THEN IF ~Contains(Lower(text), "confirm") /\ Lower(Strip(text)) \notin {"move", "go ahead"}
             THEN Say(r, "Say confirm to move, or cancel.")
             ELSE voice_form_reset(
                      Say(start_folder_move(
                              Effect(r, "start_folder_move " \o r.voice_form.src \o " " \o r.voice_form.dst),
                              r.voice_form.src, r.voice_form.dst, e),
                          "Moving now."))
        ELSE r

\* _voice_form_handle without its test of the cancellation phrases
voice_form_handle_no_cancel(r, text, e) ==
    IF r.voice_form.mode = "none" THEN r
    ELSE IF r.voice_form.mode = "create_folder" THEN voice_form_handle_create_folder(r, text, e)
    ELSE IF r.voice_form.mode = "move_folder" THEN voice_form_handle_move_folder(r, text, e)
    ELSE r

\* _voice_form_handle
voice_form_handle(r, text, e) ==
    LET lowered == Lower(Strip(text))
    IN  IF r.voice_form.mode = "none" THEN r
        ELSE IF Contains(lowered, "cancel") \/ lowered \in {"stop", "never mind", "nevermind"}
        THEN voice_form_reset(Say(r, "Cancelled."))
        ELSE IF r.voice_form.mode = "create_folder" THEN voice_form_handle_create_folder(r, text, e)
        ELSE IF r.voice_form.mode = "move_folder" THEN voice_form_handle_move_folder(r, text, e)
        ELSE r

\* hide_interface() as the router calls it
hide_interface_run(r) ==
    Say([r EXCEPT !.is_hidden = TRUE, !.is_listening = FALSE], "Standing by.")

\* _fallback_handle_command
fallback_handle_command(r, text) ==
    IF Contains(Lower(text), "hello") THEN Say(r, "Hello. How can I help you today?")
    ELSE Say(r, "I understood the command, but I don't have a protocol for that yet.")

\* `handled = bool(self.command_processor.process(text))` and
\* `if not handled: self._fallback_handle_command(text)`
process_or_fallback(r, text, e) ==
    LET out == process(r, text, e)
    IN  IF out.handled THEN out
        ELSE fallback_handle_command(Called(out, "fallback_handle_command", text), text)

\* _handle_recognized_text
handle_recognized_text(r, heardText, e) ==
    LET text == Strip(heardText)
        lowered == Lower(text)
    IN  IF Len(text) = 0 THEN r
        ELSE IF r.voice_form.mode # "none"
        THEN voice_form_handle(Called(r, "voice_form_handle", text), text, e)
        ELSE IF \E w \in {"hide", "sleep", "go to sleep"} : Contains(lowered, w)
        THEN hide_interface_run(Called(r, "hide_interface", ""))
        ELSE IF (Contains(lowered, "create") /\ Contains(lowered, "folder"))
                    \/ Contains(lowered, "new folder")
        THEN voice_form_start_create_folder(Called(r, "voice_form_start_create_folder", ""), e)
        ELSE IF (Contains(lowered, "move") /\ Contains(lowered, "folder")) \/ Strip(lowered) = "move"
        THEN voice_form_start_move_folder(Called(r, "voice_form_start_move_folder", ""))
        ELSE process_or_fallback(r, text, e)

\* _handle_local_text_commands; handled is its return value
handle_local_text_commands(r, text, e) ==
    LET parts == Split(text)
        cmd == Lower(parts[1])
    IN  IF Len(parts) = 0 THEN [r EXCEPT !.handled = FALSE]
        ELSE IF cmd \in {"hide", "sleep"}
        THEN [hide_interface_run(Called(r, "hide_interface", "")) EXCEPT !.handled = TRUE]
        ELSE IF cmd = "download" /\ Len(parts) >= 2
        THEN [Effect(Called(r, "start_youtube_download", parts[2]), "start_youtube_download")
                 EXCEPT !.handled = TRUE]
        ELSE IF cmd = "move" /\ Len(parts) >= 3
        THEN [start_folder_move(
                  Effect(Called(r, "start_folder_move", parts[2]),
                         "start_folder_move " \o parts[2] \o " " \o parts[3]),
                  parts[2], parts[3], e)
                 EXCEPT !.handled = TRUE]
        ELSE [r EXCEPT !.handled = FALSE]

\* handle_text_command: the typed entry of the router
handle_text_command(r, typedText, e) ==
    LET text == Strip(typedText)
        local == handle_local_text_commands(r, text, e)
    IN  IF Len(text) = 0 THEN Say(r, "Please type a command.")
        ELSE IF local.handled THEN local
        ELSE process_or_fallback(r, text, e)

(***************************************************************************)
(* lib/gesture_controller.py: GestureController._run, one frame at a time  *)
(* Times are tenths of a second.  A frame is its finger count fingers_up,  *)
(* or -1 when the frame has no landmarks.                                  *)
(***************************************************************************)
\* cooldown_s=1.2, as start_gestures passes it
cooldown_s == 12
\* two_finger_hold_s=1.0, as start_gestures passes it
two_finger_hold_s == 10

\* fingers_up of a frame (five is handled as four is), -1 without landmarks
Samples == {-1, 0, 1, 2, 3, 4}

\* the time between two frames: cap.read(), the hand model and time.sleep(0.01)
FrameGaps == {3, 5}

NoRun == [start |-> -1, last |-> -1, end |-> -1, taps |-> 0, holds |-> 0]

\* last_action = 0.0, two_start = None, two_hold_fired = False
InitDebounce(elapsed) ==
    /\ deadline = Epoch + elapsed
    /\ now = Epoch
    /\ last_action = 0
    /\ two_start = -1
    /\ two_hold_fired = FALSE
    /\ sample = -1
    /\ emitted = <<>>
    /\ prevGatedAt = -1
    /\ lastGatedAt = -1
    /\ lastGatedKind = "none"
    /\ run = NoRun
    /\ settled = NoRun

\* a loop in which the cooldown test never holds a callback back
CooldownOverAlways(t, la) == TRUE

\* not (self.cooldown_s and (now - last_action) < self.cooldown_s)
CooldownOver(t, la) == ~(cooldown_s # 0 /\ (t - la) < cooldown_s)

\* `if fingers_up == 2: ... else: ...`: the new two_start and two_hold_fired
\* and the callback dispatched
TwoFingers(f, t) ==
    IF f = 2
    THEN LET ts == IF two_start = -1 THEN t ELSE two_start
             fired == IF two_start = -1 THEN FALSE ELSE two_hold_fired
             hold == ~fired /\ (t - ts) >= two_finger_hold_s
         IN  [two_start |-> ts, two_hold_fired |-> (fired \/ hold),
              events |-> IF hold THEN <<"on_two_fingers_hold">> ELSE <<>>]
    ELSE [two_start |-> -1, two_hold_fired |-> FALSE,
          events |-> IF two_start # -1 /\ (t - two_start) < two_finger_hold_s
                     THEN <<"on_two_fingers_tap">> ELSE <<>>]

\* the cooldown-gated callbacks: the new last_action and the callback dispatched
CooldownGated(f, t) ==
    IF ~CooldownOver(t, last_action) THEN [last_action |-> last_action, events |-> <<>>]
    ELSE IF f = 3 THEN [last_action |-> t, events |-> <<"on_open_hand">>]
    ELSE IF f >= 4 THEN [last_action |-> t, events |-> <<"on_open_palm">>]
    ELSE IF f = 0 THEN [last_action |-> t, events |-> <<"on_closed_fist">>]
    ELSE [last_action |-> last_action, events |-> <<>>]

\* The runs of two-finger frames, as an observer of the frames sees them: a run
\* starts at a two-finger frame that follows another frame, ends at the first
\* frame that is not a two-finger frame, and is settled (all its callbacks are
\* known) at the next frame with a hand.
RunAfter(f, t, taps, holds) ==
    IF f = 2 /\ sample # 2
    THEN [start |-> t, last |-> t, end |-> -1, taps |-> 0, holds |-> holds]
    ELSE IF f = 2 THEN [run EXCEPT !.last = t, !.holds = @ + holds]
    ELSE IF f = -1 /\ sample = 2 THEN [run EXCEPT !.end = t]
    ELSE IF f = -1 THEN run
    ELSE NoRun

SettledAfter(f, t, taps, holds) ==
    IF f = 2 /\ sample # 2 /\ run.start # -1 THEN run
    ELSE IF f \notin {-1, 2} /\ run.start # -1
    THEN [run EXCEPT !.end = IF @ = -1 THEN t ELSE @, !.taps = @ + taps]
    ELSE settled

\* one iteration of `while not self._stop.is_set()`
run_frame ==
    /\ \E dt \in FrameGaps, f \in Samples :
          LET t == now + dt
              two == TwoFingers(f, t)
              gated == CooldownGated(f, t)
              isGated == f # -1 /\ gated.events # <<>>
              taps == IF f # -1 /\ two.events = <<"on_two_fingers_tap">> THEN 1 ELSE 0
              holds == IF f # -1 /\ two.events = <<"on_two_fingers_hold">> THEN 1 ELSE 0
          IN  /\ t <= deadline
              /\ UNCHANGED deadline
              /\ now' = t
              /\ sample' = f
              /\ IF f = -1
                 THEN /\ UNCHANGED <<last_action, two_start, two_hold_fired>>
                      /\ emitted' = <<>>
                 ELSE /\ two_start' = two.two_start
                      /\ two_hold_fired' = two.two_hold_fired
                      /\ last_action' = gated.last_action
                      /\ emitted' = <<"on_detection">> \o two.events \o gated.events
              /\ prevGatedAt' = IF isGated THEN lastGatedAt ELSE prevGatedAt
              /\ lastGatedAt' = IF isGated THEN t ELSE lastGatedAt
              /\ lastGatedKind' = IF isGated THEN gated.events[1] ELSE lastGatedKind
              /\ run' = RunAfter(f, t, taps, holds)
              /\ settled' = SettledAfter(f, t, taps, holds)
    /\ UNCHANGED <<ttsVars, listenVars, histVars, routerVars, obsVars, flagVars, workVars, move_thread>>

\* the BooleanVar and StringVar of FridayGUI.__init__
InitFlags ==
    /\ mouse_control_enabled = FALSE
    /\ window_move_enabled = FALSE
    /\ close_window_enabled = FALSE
    /\ screenshot_enabled = FALSE
    /\ fist_action = "Stop listening"
    /\ window_drag = FALSE

(***************************************************************************)
(* main.py: the callbacks start_gestures gives to the GestureController,   *)
(* each run on the Tk thread by root.after(0, ...)                         *)
(***************************************************************************)
\* start_listening() from its first line to its last
start_listening_run(r) ==
    LET r1 == [Called(r, "start_listening", "") EXCEPT !.stop_event = TRUE]
    IN  IF r.is_listening THEN r1
        ELSE Effect([r1 EXCEPT !.is_listening = TRUE], "listen_loop thread")

\* stop_listening()
stop_listening_run(r) == [Called(r, "stop_listening", "") EXCEPT !.is_listening = FALSE]

\* take_screenshot(): pyautogui.screenshot() or ImageGrab.grab(), saved when one works
take_screenshot(r, e) ==
    IF e.ok /\ ~e.raises THEN Effect(Called(r, "take_screenshot", ""), "screenshot saved")
    ELSE Called(r, "take_screenshot", "")

\* _on_fist_gesture
on_fist_gesture(r, e) ==
    LET r1 == IF r.fist_action \in {"Stop listening", "Both"} THEN stop_listening_run(r) ELSE r
    IN  IF r.fist_action \in {"Screenshot", "Both"} /\ r.screenshot_enabled
        THEN take_screenshot(r1, e) ELSE r1

\* _gesture_click: pyautogui.click() when pyautogui was imported
gesture_click(r, e) ==
    IF ~e.ok THEN r
    ELSE IF e.raises THEN Called(r, "pyautogui.click", "")
    ELSE Effect(Called(r, "pyautogui.click", ""), "click")

\* _open_camera_tab
open_camera_tab(r) == Effect(Called(r, "open_camera_tab", ""), "tabs.set Camera")

\* _close_active_window
close_active_window(r, e) ==
    IF ~r.close_window_enabled THEN r
    ELSE IF e.ok /\ ~e.raises THEN Effect(Called(r, "close_active_window", ""), "window closed")
    ELSE Called(r, "close_active_window", "")

\* _gesture_open_palm_action
gesture_open_palm_action(r, e) ==
    IF r.close_window_enabled THEN close_active_window(r, e) ELSE r

\* _window_drag_stop
window_drag_stop(r) == [r EXCEPT !.window_drag = FALSE]

\* on_detection(fingers, pointer) of start_gestures, after its labels
on_detection(r, fingers, pointer, e) ==
    IF ~pointer THEN window_drag_stop(r)
    ELSE LET r1 == IF fingers = 1 /\ r.mouse_control_enabled
                   THEN Called(r, "mouse_move_from_norm", "") ELSE r
         IN  IF fingers = 4 /\ r1.window_move_enabled
             THEN LET active == r1.window_drag \/ (e.ok /\ ~e.raises)
                      r2 == [Called(r1, "window_drag_update", "") EXCEPT !.window_drag = active]
                  IN  IF active THEN Effect(r2, "window moved") ELSE r2
             ELSE window_drag_stop(r1)

\* fingers_up of a frame with a hand: four fingers and the thumb
FingerCounts == {0, 1, 2, 3, 4, 5}

\* the label on_detection gives to _set_last_gesture
last_gesture_label(fingers) ==
    CASE fingers = 1 -> "1 finger (mouse)"
      [] fingers = 2 -> "2 fingers (tap=click / hold=camera)"
      [] fingers = 3 -> "3 fingers (listen)"
      [] fingers = 4 -> "4 fingers (move window)"
      [] fingers >= 5 -> "5 fingers (close window)"
      [] fingers = 0 -> "fist (stop)"

\* the callback a dispatched gesture runs
GestureCallbacks ==
    {"on_open_hand", "on_closed_fist", "on_two_fingers_hold", "on_two_fingers_tap", "on_open_palm"}

run_callback(r, ev, e) ==
    CASE ev = "on_open_hand" -> start_listening_run(r)
      [] ev = "on_closed_fist" -> on_fist_gesture(r, e)
      [] ev = "on_two_fingers_hold" -> open_camera_tab(r)
      [] ev = "on_two_fingers_tap" -> gesture_click(r, e)
      [] ev = "on_open_palm" -> gesture_open_palm_action(r, e)

(***************************************************************************)
(* lib/xo_game.py: the board of the Tic-Tac-Toe window                     *)
(***************************************************************************)
Cells == 1 .. 9

EmptyBoard == [c \in Cells |-> ""]

\* the rows, the columns and the two diagonals of _check_winner
WinLines == {{1, 2, 3}, {4, 5, 6}, {7, 8, 9}, {1, 4, 7}, {2, 5, 8}, {3, 6, 9}, {1, 5, 9}, {3, 5, 7}}

check_winner(b, player) == \E l \in WinLines : \A c \in l : b[c] = player

is_board_full(b) == \A c \in Cells : b[c] # ""

\* _find_winning_move: the first empty cell, row by row, that wins (0: None)
find_winning_move(b, player) ==
    LET wins == {c \in Cells : b[c] = "" /\ check_winner([b EXCEPT ![c] = player], player)}
    IN  IF wins = {} THEN 0 ELSE CHOOSE c \in wins : \A d \in wins : c <= d

\* the cells friday_move can take: the winning move, else the blocking move,
\* else any empty cell (_find_random_move)
friday_moves(b) ==
    IF find_winning_move(b, "O") # 0 THEN {find_winning_move(b, "O")}
    ELSE IF find_winning_move(b, "X") # 0 THEN {find_winning_move(b, "X")}
    ELSE {c \in Cells : b[c] = ""}

\* XOGame.__init__, and FridayGUI.__init__ before any controller, preview or
\* worker thread exists
InitWork ==
    /\ board = EmptyBoard
    /\ current_player = "X"
    /\ game_over = FALSE
    /\ friday_pending = 0
    /\ conv_threads = 0
    /\ gesture_controller = 0
    /\ gesture_start_btn = TRUE
    /\ ctl_made = 0
    /\ ctl_stop = [c \in Ctls |-> FALSE]
    /\ ctl_thread = [c \in Ctls |-> 0]
    /\ g_pc = [t \in GThreads |-> "unborn"]
    /\ g_ctl = [t \in GThreads |-> 0]
    /\ gc_op = "none"
    /\ camera_preview_stop = FALSE
    /\ camera_preview_thread = 0
    /\ preview_start_btn = TRUE
    /\ p_pc = [t \in PThreads |-> "unborn"]
    /\ move_thread = FALSE
    /\ yt_queue = <<>>
    /\ yt_made = 0
    /\ yt_active = 0
    /\ yt_pc = "none"
    /\ yt_done = {}

\* n calls of voice_engine.speak() with a line of the game, one after another
speak_lines(n) ==
    /\ nextId + n - 1 <= speakBudget
    /\ tts_queue' = tts_queue \o [k \in 1 .. n |-> nextId + k - 1]
    /\ unfinished_tasks' = unfinished_tasks + n
    /\ nextId' = nextId + n

\* on_cell_click(row, col) with _maybe_chit_chat: nothing, a joke or a question
on_cell_click ==
    /\ ui_pc = "idle"
    /\ xo_game_window
    /\ ~game_over
    /\ current_player = "X"
    /\ \E c \in Cells, chat \in {"none", "joke", "question"} :
          LET b == [board EXCEPT ![c] = "X"]
              over == check_winner(b, "X") \/ is_board_full(b)
          IN  /\ board[c] = ""
              /\ board' = b
              /\ IF chat = "question"
                 THEN /\ conv_threads < MaxTimers
                      /\ conversation_mode' = TRUE
                      /\ conv_threads' = conv_threads + 1
                 ELSE UNCHANGED <<conversation_mode, conv_threads>>
              /\ speak_lines((IF chat = "none" THEN 0 ELSE 1) + (IF over THEN 1 ELSE 0))
              /\ game_over' = over
              /\ IF over
                 THEN UNCHANGED <<current_player, friday_pending>>
                 ELSE /\ friday_pending < MaxTimers
                      /\ current_player' = "O"
                      /\ friday_pending' = friday_pending + 1
    /\ UNCHANGED <<backend, stop_event, tts_pc, tts_cur, remaining, ui_pc, ui_op, stopCalls, speakBudget, stopBudget>>
    /\ UNCHANGED <<voice_form, pending_question, chat_mode_active, xo_game_window, preferences>>
    /\ UNCHANGED <<listenVars, histVars, obsVars, debounceVars, flagVars, camVars, ytVars, move_thread>>

\* friday_move, run by the timer of on_cell_click; _maybe_comment_on_move
\* speaks or not
friday_move ==
    /\ ui_pc = "idle"
    /\ friday_pending > 0
    /\ friday_pending' = friday_pending - 1
    /\ IF game_over \/ friday_moves(board) = {}
       THEN /\ UNCHANGED <<board, current_player, game_over>>
            /\ speak_lines(0)
       ELSE \E c \in friday_moves(board), comment \in BOOLEAN :
              LET b == [board EXCEPT ![c] = "O"]
                  over == check_winner(b, "O") \/ is_board_full(b)
              IN  /\ board' = b
                  /\ game_over' = over
                  /\ current_player' = IF over THEN current_player ELSE "X"
                  /\ over => ~comment
                  /\ speak_lines(IF over \/ comment THEN 1 ELSE 0)
    /\ UNCHANGED <<backend, stop_event, tts_pc, tts_cur, remaining, ui_pc, ui_op, stopCalls, speakBudget, stopBudget>>
    /\ UNCHANGED <<routerVars, conv_threads>>
    /\ UNCHANGED <<listenVars, histVars, obsVars, debounceVars, flagVars, camVars, ytVars, move_thread>>

\* reset_game, the NEW GAME button
reset_game ==
    /\ ui_pc = "idle"
    /\ xo_game_window
    /\ board' = EmptyBoard
    /\ current_player' = "X"
    /\ game_over' = FALSE
    /\ speak_lines(1)
    /\ UNCHANGED <<backend, stop_event, tts_pc, tts_cur, remaining, ui_pc, ui_op, stopCalls, speakBudget, stopBudget>>
    /\ UNCHANGED <<routerVars, friday_pending, conv_threads>>
    /\ UNCHANGED <<listenVars, histVars, obsVars, debounceVars, flagVars, camVars, ytVars, move_thread>>

\* disable_conv_mode, the thread _maybe_chit_chat starts: after its sleep it
\* writes command_processor.conversation_mode
disable_conv_mode ==
    /\ conv_threads > 0
    /\ conv_threads' = conv_threads - 1
    /\ conversation_mode' = FALSE
    /\ UNCHANGED <<voice_form, pending_question, chat_mode_active, xo_game_window, preferences>>
    /\ UNCHANGED <<board, current_player, game_over, friday_pending>>
    /\ UNCHANGED <<ttsVars, listenVars, histVars, obsVars, debounceVars, flagVars, camVars, ytVars, move_thread>>

(***************************************************************************)
(* The camera: lib/gesture_controller.py and the camera tab of main.py     *)
(*                                                                         *)
(* A thread is "unborn" before Thread.start(), "started" until its         *)
(* cv2.VideoCapture() call, "sampling" while it holds the capture open and *)
(* reads frames, and "ended" after cap.release() or a failed open.         *)
(***************************************************************************)
\* Thread.is_alive()
is_alive(pc) == pc \in {"started", "sampling"}

GcState == [ctl_stop |-> ctl_stop, ctl_thread |-> ctl_thread, g_pc |-> g_pc, g_ctl |-> g_ctl]

\* the next Thread object: the first one not started yet
FreshThread(pcs) == CHOOSE t \in DOMAIN pcs : pcs[t] = "unborn" /\ \A u \in DOMAIN pcs : pcs[u] = "unborn" => t <= u

\* GestureController.start() of controller c, cv2 and mediapipe installed
GestureController_start(s, c) ==
    IF s.ctl_thread[c] # 0 /\ is_alive(s.g_pc[s.ctl_thread[c]])
    THEN s
    ELSE LET t == FreshThread(s.g_pc)
         IN  [s EXCEPT !.ctl_stop[c] = FALSE, !.ctl_thread[c] = t,
                       !.g_pc[t] = "started", !.g_ctl[t] = c]

\* GestureController.stop() of controller c; joined: the thread came to its
\* end within the two seconds of join(timeout=2.0)
GestureController_stop(s, c, joined) ==
    LET t == s.ctl_thread[c]
    IN  [s EXCEPT !.ctl_stop[c] = TRUE,
                  !.g_pc = IF t # 0 /\ is_alive(@[t]) /\ joined THEN [@ EXCEPT ![t] = "ended"] ELSE @]

CommitGc(s) ==
    /\ ctl_stop' = s.ctl_stop
    /\ ctl_thread' = s.ctl_thread
    /\ g_pc' = s.g_pc
    /\ g_ctl' = s.g_ctl

CameraFrame ==
    UNCHANGED <<ttsVars, listenVars, histVars, routerVars, obsVars, debounceVars, flagVars, xoVars,
                ytVars, move_thread>>

\* FridayGUI.start_gestures, the START GESTURES button: a new controller with
\* start_immediately=True
start_gestures ==
    /\ ui_pc = "idle"
    /\ gesture_start_btn
    /\ ctl_made < MaxControllers
    /\ \E t \in GThreads : g_pc[t] = "unborn"
    /\ ctl_made' = ctl_made + 1
    /\ gesture_controller' = ctl_made + 1
    /\ CommitGc(GestureController_start(GcState, ctl_made + 1))
    /\ gc_op' = "start"
    /\ gesture_start_btn' = FALSE
    /\ UNCHANGED <<camera_preview_stop, camera_preview_thread, preview_start_btn, p_pc>>
    /\ CameraFrame

\* FridayGUI.stop_gestures, the STOP GESTURES button
stop_gestures ==
    /\ ui_pc = "idle"
    /\ IF gesture_controller # 0
       THEN /\ \E joined \in BOOLEAN : CommitGc(GestureController_stop(GcState, gesture_controller, joined))
            /\ gc_op' = "stop"
       ELSE UNCHANGED <<gcVars, gc_op>>
    /\ gesture_controller' = 0
    /\ gesture_start_btn' = TRUE
    /\ UNCHANGED <<ctl_made, camera_preview_stop, camera_preview_thread, preview_start_btn, p_pc>>
    /\ CameraFrame

\* GestureController.stop() called on the controller the window holds
GestureController_stop_call ==
    /\ ui_pc = "idle"
    /\ gesture_controller # 0
    /\ \E joined \in BOOLEAN : CommitGc(GestureController_stop(GcState, gesture_controller, joined))
    /\ gc_op' = "stop"
    /\ UNCHANGED <<gesture_controller, gesture_start_btn, ctl_made,
                   camera_preview_stop, camera_preview_thread, preview_start_btn, p_pc>>
    /\ CameraFrame

\* GestureController.start() called on the controller the window holds
GestureController_start_call ==
    /\ ui_pc = "idle"
    /\ gesture_controller # 0
    /\ \E t \in GThreads : g_pc[t] = "unborn"
    /\ CommitGc(GestureController_start(GcState, gesture_controller))
    /\ gc_op' = "start"
    /\ UNCHANGED <<gesture_controller, gesture_start_btn, ctl_made,
                   camera_preview_stop, camera_preview_thread, preview_start_btn, p_pc>>
    /\ CameraFrame

\* GestureController._run up to its loop: cv2.VideoCapture(camera_index) and
\* cap.isOpened()
gesture_run_open(t) ==
    /\ g_pc[t] = "started"
    /\ \E opened \in BOOLEAN : g_pc' = [g_pc EXCEPT ![t] = IF opened THEN "sampling" ELSE "ended"]
    /\ UNCHANGED <<gesture_controller, gesture_start_btn, ctl_made, ctl_stop, ctl_thread, g_ctl, gc_op,
                   camera_preview_stop, camera_preview_thread, preview_start_btn, p_pc>>
    /\ CameraFrame

\* GestureController._run leaves `while not self._stop.is_set()`, or breaks
\* out of it when cap.read() fails, and releases the capture
gesture_run_exit(t) ==
    /\ g_pc[t] = "sampling"
    /\ \E ret \in BOOLEAN : ctl_stop[g_ctl[t]] \/ ~ret
    /\ g_pc' = [g_pc EXCEPT ![t] = "ended"]
    /\ UNCHANGED <<gesture_controller, gesture_start_btn, ctl_made, ctl_stop, ctl_thread, g_ctl, gc_op,
                   camera_preview_stop, camera_preview_thread, preview_start_btn, p_pc>>
    /\ CameraFrame

\* FridayGUI.start_camera_preview, the START PREVIEW button, Pillow and cv2
\* installed
start_camera_preview ==
    /\ ui_pc = "idle"
    /\ preview_start_btn
    /\ ~(camera_preview_thread # 0 /\ is_alive(p_pc[camera_preview_thread]))
    /\ \E t \in PThreads : p_pc[t] = "unborn"
    /\ IF gesture_controller # 0
       THEN /\ \E joined \in BOOLEAN : CommitGc(GestureController_stop(GcState, gesture_controller, joined))
            /\ gc_op' = "stop"
            /\ gesture_controller' = 0
            /\ gesture_start_btn' = TRUE
       ELSE UNCHANGED <<gcVars, gc_op, gesture_controller, gesture_start_btn>>
    /\ camera_preview_stop' = FALSE
    /\ camera_preview_thread' = FreshThread(p_pc)
    /\ p_pc' = [p_pc EXCEPT ![FreshThread(p_pc)] = "started"]
    /\ preview_start_btn' = FALSE
    /\ UNCHANGED ctl_made
    /\ CameraFrame

\* FridayGUI.stop_camera_preview, the STOP PREVIEW button; joined: the worker
\* came to its end within join(timeout=1.0)
stop_camera_preview ==
    /\ ui_pc = "idle"
    /\ camera_preview_stop' = TRUE
    /\ IF camera_preview_thread # 0 /\ is_alive(p_pc[camera_preview_thread])
       THEN \E joined \in BOOLEAN :
              p_pc' = IF joined THEN [p_pc EXCEPT ![camera_preview_thread] = "ended"] ELSE p_pc
       ELSE UNCHANGED p_pc
    /\ camera_preview_thread' = 0
    /\ preview_start_btn' = TRUE
    /\ UNCHANGED <<gesture_controller, gesture_start_btn, ctl_made, gcVars, gc_op>>
    /\ CameraFrame

\* the preview worker up to its loop: cv2.VideoCapture(idx) and cap.isOpened()
preview_worker_open(t) ==
    /\ p_pc[t] = "started"
    /\ \E opened \in BOOLEAN : p_pc' = [p_pc EXCEPT ![t] = IF opened THEN "sampling" ELSE "ended"]
    /\ UNCHANGED <<gesture_controller, gesture_start_btn, ctl_made, gcVars, gc_op,
                   camera_preview_stop, camera_preview_thread, preview_start_btn>>
    /\ CameraFrame

\* the preview worker leaves `while not self._camera_preview_stop.is_set()`,
\* or breaks out of it when cap.read() fails, and releases the capture
preview_worker_exit(t) ==
    /\ p_pc[t] = "sampling"
    /\ \E ok \in BOOLEAN : camera_preview_stop \/ ~ok
    /\ p_pc' = [p_pc EXCEPT ![t] = "ended"]
    /\ UNCHANGED <<gesture_controller, gesture_start_btn, ctl_made, gcVars, gc_op,
                   camera_preview_stop, camera_preview_thread, preview_start_btn>>
    /\ CameraFrame

GestureThreads == \E t \in GThreads : gesture_run_open(t) \/ gesture_run_exit(t)

PreviewWorkers == \E t \in PThreads : preview_worker_open(t) \/ preview_worker_exit(t)

\* the components that hold a cv2.VideoCapture open
CameraHolders ==
    {<<"gesture", t>> : t \in {u \in GThreads : g_pc[u] = "sampling"}}
        \cup {<<"preview", t>> : t \in {u \in PThreads : p_pc[u] = "sampling"}}

(***************************************************************************)
(* The router as actions of the Tk thread                                  *)
(***************************************************************************)
\* What listen_for_command returns (recognize_google(audio).lower()) in the
\* behaviours of the router's specifications.
Transcripts == {
    "hide", "create folder", "cancel", "chat", "yes", "guess", "xo",
    "search for the research paper", "what is the time", "play a game" }

\* What the user types into the command entry.
TypedTexts == {"", "Time", "hide now"}

\* The transcripts of the behaviours that go through the two voice forms.
FormTranscripts == {
    "create folder", "move folder", "cancel", "stop", "never mind",
    "call it reports", "call it", "downloads", "elsewhere", "confirm" }

\* The transcripts of the behaviours in which chatbot mode is entered.
ChatbotTranscripts ==
    {"hide", "create folder", "cancel", "chat", "xo", "deactivate chatbot", "exit chatbot"}

InitRouter(voiceTexts, typedTexts) ==
    /\ InitDebounce(MaxElapsed)
    /\ InitFlags
    /\ InitWork
    /\ transcripts = voiceTexts
    /\ typed_texts = typedTexts
    /\ voice_form = NoForm
    /\ pending_question = "none"
    /\ conversation_mode = FALSE
    /\ chat_mode_active = FALSE
    /\ xo_game_window = FALSE
    /\ preferences = {}
    /\ heard = ""
    /\ entry = "none"
    /\ calls = <<>>
    /\ said = <<>>
    /\ effects = <<>>
    /\ before = [voice_form |-> FALSE, pending_question |-> FALSE, chat_mode_active |-> FALSE,
                 xo_game_window |-> FALSE]

\* The state a handler of the Tk thread starts from.
RouterState ==
    [voice_form |-> voice_form, pending_question |-> pending_question,
     conversation_mode |-> conversation_mode, chat_mode_active |-> chat_mode_active,
     xo_game_window |-> xo_game_window, preferences |-> preferences,
     is_hidden |-> is_hidden, is_listening |-> is_listening, stop_event |-> stop_event,
     mouse_control_enabled |-> mouse_control_enabled,
     window_move_enabled |-> window_move_enabled,
     close_window_enabled |-> close_window_enabled,
     screenshot_enabled |-> screenshot_enabled,
     fist_action |-> fist_action, window_drag |-> window_drag,
     move_thread |-> move_thread,
     calls |-> <<>>, said |-> <<>>, effects |-> <<>>, raised |-> FALSE, handled |-> FALSE]

\* The state a handler of the Tk thread leaves, and the observations of it.
\* The texts it passed to speak() are kept in `said`; what the queue does with
\* them is the subject of SpecTts.
Commit(r, text, how) ==
    /\ voice_form' = r.voice_form
    /\ pending_question' = r.pending_question
    /\ conversation_mode' = r.conversation_mode
    /\ chat_mode_active' = r.chat_mode_active
    /\ xo_game_window' = r.xo_game_window
    /\ preferences' = r.preferences
    /\ is_hidden' = r.is_hidden
    /\ is_listening' = r.is_listening
    /\ stop_event' = r.stop_event
    /\ heard' = text
    /\ entry' = how
    /\ calls' = r.calls
    /\ said' = r.said
    /\ effects' = r.effects
    /\ UNCHANGED <<transcripts, typed_texts>>
    /\ before' = [voice_form |-> voice_form.mode # "none",
                  pending_question |-> pending_question # "none",
                  chat_mode_active |-> chat_mode_active,
                  xo_game_window |-> xo_game_window]
    /\ UNCHANGED <<backend, tts_queue, unfinished_tasks, tts_pc, tts_cur, remaining, nextId,
                   ui_pc, ui_op, stopCalls, speakBudget, stopBudget>>
    /\ UNCHANGED <<wake_word_enabled, loop_pc, bg_pc, ui_queue>>
    /\ UNCHANGED histVars
    /\ UNCHANGED <<debounceVars, workVars>>
    /\ move_thread' = r.move_thread
    /\ mouse_control_enabled' = r.mouse_control_enabled
    /\ window_move_enabled' = r.window_move_enabled
    /\ close_window_enabled' = r.close_window_enabled
    /\ screenshot_enabled' = r.screenshot_enabled
    /\ fist_action' = r.fist_action
    /\ window_drag' = r.window_drag

\* root.after(0, lambda: self._handle_recognized_text(text)) runs
recognized_text ==
    /\ ui_pc = "idle"
    /\ \E text \in transcripts, e \in Envs :
          Commit(handle_recognized_text(RouterState, text, e), text, "voice")

\* the Enter key or the Run button of the command entry
text_command ==
    /\ ui_pc = "idle"
    /\ \E text \in typed_texts, e \in Envs :
          Commit(handle_text_command(RouterState, text, e), text, "typed")

\* the close button of the Tic-Tac-Toe window: XOGame.on_close -> on_game_end
xo_on_close ==
    /\ ui_pc = "idle"
    /\ xo_game_window
    /\ Commit(on_game_end(RouterState), "", "xo_close")

\* the close button of a voice form's window: WM_DELETE_WINDOW -> _voice_form_reset
voice_form_window_close ==
    /\ ui_pc = "idle"
    /\ voice_form.mode # "none"
    /\ Commit(voice_form_reset(RouterState), "", "form_close")

\* the button VOICE: CREATE FOLDER (command=self._voice_form_start_create_folder)
create_folder_button ==
    /\ ui_pc = "idle"
    /\ \E e \in Envs :
          Commit(voice_form_start_create_folder(
                     Called(RouterState, "voice_form_start_create_folder", ""), e),
                 "", "button")

\* the button VOICE: MOVE FOLDER (command=self._voice_form_start_move_folder)
move_folder_button ==
    /\ ui_pc = "idle"
    /\ Commit(voice_form_start_move_folder(
                  Called(RouterState, "voice_form_start_move_folder", "")),
              "", "button")

\* a callback of the gesture thread runs on the Tk thread
gesture_callback ==
    /\ ui_pc = "idle"
    /\ \E ev \in GestureCallbacks, e \in Envs :
          Commit(run_callback(RouterState, ev, e), ev, "gesture")

\* on_detection runs on the Tk thread
detection_callback ==
    /\ ui_pc = "idle"
    /\ \E fingers \in Samples \ {-1}, pointer \in BOOLEAN, e \in Envs :
          Commit(on_detection(RouterState, fingers, pointer, e), "on_detection", "gesture")

\* One frame with a hand, outside the cooldown: GestureController._run dispatches
\* on_detection and then the cooldown-gated callback of the finger count, and
\* the Tk thread runs them in that order.
hand_frame ==
    /\ ui_pc = "idle"
    /\ \E fingers \in FingerCounts, pointer \in BOOLEAN, e \in Envs :
          LET r1 == on_detection(RouterState, fingers, pointer, e)
              evs == CooldownGated(fingers, now).events
              r2 == IF evs = <<>> THEN r1 ELSE run_callback(r1, evs[1], e)
          IN  Commit(r2, last_gesture_label(fingers), "frame")

\* a switch of the gesture panel is flipped, or a fist action is chosen
toggle_capability ==
    /\ ui_pc = "idle"
    /\ \E r \in { [RouterState EXCEPT !.mouse_control_enabled = ~@],
                   [RouterState EXCEPT !.window_move_enabled = ~@,
                                       !.window_drag = IF window_move_enabled THEN FALSE ELSE @],
                   [RouterState EXCEPT !.close_window_enabled = ~@],
                   [RouterState EXCEPT !.screenshot_enabled = ~@],
                   [RouterState EXCEPT !.fist_action = "Stop listening"],
                   [RouterState EXCEPT !.fist_action = "Screenshot"],
                   [RouterState EXCEPT !.fist_action = "Both"] } :
          Commit(r, "", "toggle")

\* listen_loop: listen_for_command returned a transcript and the loop posts
\* root.after(0, lambda t=text: self._handle_recognized_text(t))
loop_heard(i) ==
    /\ loop_pc[i] = "mic"
    /\ Len(ui_queue) < MaxPosted
    /\ ui_queue' = Append(ui_queue, "handle_recognized_text")
    /\ loop_pc' = [loop_pc EXCEPT ![i] = "top"]
    /\ UNCHANGED ttsVars
    /\ UNCHANGED <<is_listening, is_hidden, wake_word_enabled, bg_pc>>
    /\ UNCHANGED histVars

\* the listen_loop threads of a behaviour in which every cycle hears a transcript
HearingLoop ==
    /\ \E i \in Loops :
        \/ loop_test(i)
        \/ loop_check(i)
        \/ loop_open(i)
        \/ loop_heard(i)
    /\ UNCHANGED <<routerVars, obsVars, debounceVars, flagVars, workVars, move_thread>>

\* The Tk thread runs the posted _handle_recognized_text, and every text the
\* handlers pass to speak() is put on the utterance queue.
handle_posted_text ==
    /\ ui_pc = "idle"
    /\ ui_queue # <<>>
    /\ Head(ui_queue) = "handle_recognized_text"
    /\ \E text \in transcripts, e \in Envs :
        \E r \in {handle_recognized_text(RouterState, text, e)} :
          LET spoken == {k \in 1 .. Len(r.said) : ~IsBlank(r.said[k])}
              n == Cardinality(spoken)
          IN  /\ nextId + n - 1 <= speakBudget
              /\ tts_queue' = tts_queue \o [k \in 1 .. n |-> nextId + k - 1]
              /\ unfinished_tasks' = unfinished_tasks + n
              /\ nextId' = nextId + n
              /\ voice_form' = r.voice_form
              /\ pending_question' = r.pending_question
              /\ conversation_mode' = r.conversation_mode
              /\ chat_mode_active' = r.chat_mode_active
              /\ xo_game_window' = r.xo_game_window
              /\ preferences' = r.preferences
              /\ is_hidden' = r.is_hidden
              /\ is_listening' = r.is_listening
              /\ stop_event' = r.stop_event
              /\ heard' = text
              /\ entry' = "voice"
              /\ calls' = r.calls
              /\ said' = r.said
              /\ effects' = r.effects
              /\ move_thread' = r.move_thread
    /\ before' = [voice_form |-> voice_form.mode # "none",
                  pending_question |-> pending_question # "none",
                  chat_mode_active |-> chat_mode_active,
                  xo_game_window |-> xo_game_window]
    /\ ui_queue' = Tail(ui_queue)
    /\ UNCHANGED <<transcripts, typed_texts>>
    /\ UNCHANGED <<backend, tts_pc, tts_cur, remaining, ui_pc, ui_op, stopCalls, speakBudget, stopBudget>>
    /\ UNCHANGED <<wake_word_enabled, loop_pc, bg_pc>>
    /\ UNCHANGED <<histVars, debounceVars, flagVars, workVars>>

\* the game window is opened: CommandProcessor.start_xo_game
start_xo_game_call ==
    /\ ui_pc = "idle"
    /\ ~xo_game_window
    /\ \E e \in Envs : \E r \in {start_xo_game(RouterState, "xo", e)} : Commit(r, "xo", "api")

\* the trigger phrases of the command table
TableKeys == {CommandTable[i][1] : i \in 1 .. Len(CommandTable)}

\* the handler the table maps a trigger phrase to
HandlerOf(key) == CommandTable[CHOOSE i \in 1 .. Len(CommandTable) : CommandTable[i][1] = key][2]

\* CommandProcessor.process called with a transcript that is a trigger phrase
process_call ==
    /\ ui_pc = "idle"
    /\ \E key \in TableKeys, e \in Envs :
          \E r \in {process(RouterState, key, e)} : Commit(r, key, "process")

\* CommandProcessor.activate_chatbot called directly (the method is public;
\* no key of the table reaches it through process(), see MatchKey).
activate_chatbot_call ==
    /\ ui_pc = "idle"
    /\ ~chat_mode_active
    /\ Commit(activate_chatbot(RouterState, ""), "", "api")

Init == InitTtsBounded(Backends, MaxSpeak, MaxStops) /\ InitListen /\ InitRouter(Transcripts, TypedTexts)

InitForListen == InitTtsBounded(Backends, MaxSpeakListen, MaxStopsListen) /\ InitListen /\ InitRouter(Transcripts, TypedTexts)

\* The router never reads the backend: its behaviours start with one.
InitForRouter == InitTtsBounded({"pyttsx3"}, MaxSpeak, MaxStops) /\ InitListen /\ InitRouter(Transcripts, TypedTexts)

SpecTts == Init /\ [][NextTts]_vars

\* From Idle: the open-hand callback (start_listening), the listening loop that
\* hears "what is the time", the router and the consumer of the queue.
NextAskTime ==
    \/ start_listening
    \/ stop_speaking_get
    \/ stop_speaking_task_done
    \/ start_listening_rest
    \/ HearingLoop
    \/ handle_posted_text
    \/ Consumer

InitForAskTime ==
    InitTtsBounded(Backends, MaxSpeakListen, MaxStopsListen) /\ InitListen /\ InitRouter({"what is the time"}, {})

SpecAskTime == InitForAskTime /\ [][NextAskTime]_vars

\* The Tic-Tac-Toe window: the user's clicks, Friday's delayed moves, the NEW
\* GAME button and the thread of the small talk.
NextXo ==
    \/ start_xo_game_call
    \/ on_cell_click
    \/ friday_move
    \/ reset_game
    \/ disable_conv_mode

InitForXo ==
    InitTtsBounded({"pyttsx3"}, MaxSpeakListen, MaxStopsListen) /\ InitListen /\ InitRouter({}, {})

SpecXo == InitForXo /\ [][NextXo]_vars

\* start_youtube_download with a URL and a folder: _yt_enqueue appends the
\* item under the lock, then _yt_queue_kick starts a worker unless the thread
\* it knows is alive
start_youtube_download ==
    /\ ui_pc = "idle"
    /\ yt_made < MaxDownloads
    /\ yt_made' = yt_made + 1
    /\ yt_queue' = Append(yt_queue, yt_made + 1)
    /\ yt_pc' = IF yt_pc \in {"top", "download", "exiting"} THEN yt_pc ELSE "top"
    /\ UNCHANGED <<yt_active, yt_done>>
    /\ UNCHANGED <<ttsVars, listenVars, histVars, routerVars, obsVars, debounceVars, flagVars,
                   xoVars, camVars, move_thread>>

\* _yt_queue_worker, one turn of its loop under the lock: the queue is empty
\* and the loop is left, or the first item is popped
yt_queue_worker_take ==
    /\ yt_pc = "top"
    /\ IF yt_queue = <<>>
       THEN /\ yt_active' = 0
            /\ yt_pc' = "exiting"
            /\ UNCHANGED yt_queue
       ELSE /\ yt_active' = Head(yt_queue)
            /\ yt_queue' = Tail(yt_queue)
            /\ yt_pc' = "download"
    /\ UNCHANGED <<yt_made, yt_done>>
    /\ UNCHANGED <<ttsVars, listenVars, histVars, routerVars, obsVars, debounceVars, flagVars,
                   xoVars, camVars, move_thread>>

\* _download_youtube_once returns for the active item: "Download complete.",
\* or "Download failed." and yt-dlp missing
yt_queue_worker_download ==
    /\ yt_pc = "download"
    /\ \E outcome \in {"complete", "failed"} : yt_done' = yt_done \cup {<<yt_active, outcome>>}
    /\ yt_pc' = "top"
    /\ UNCHANGED <<yt_queue, yt_made, yt_active>>
    /\ UNCHANGED <<ttsVars, listenVars, histVars, routerVars, obsVars, debounceVars, flagVars,
                   xoVars, camVars, move_thread>>

\* the worker thread, out of its loop, comes to its end: is_alive() is False
\* from here on
yt_queue_worker_end ==
    /\ yt_pc = "exiting"
    /\ yt_pc' = "dead"
    /\ UNCHANGED <<yt_queue, yt_made, yt_active, yt_done>>
    /\ UNCHANGED <<ttsVars, listenVars, histVars, routerVars, obsVars, debounceVars, flagVars,
                   xoVars, camVars, move_thread>>

\* The download queue: the Tk thread enqueues, the worker thread drains.
NextDownloads ==
    \/ start_youtube_download
    \/ yt_queue_worker_take
    \/ yt_queue_worker_download
    \/ yt_queue_worker_end

SpecDownloads == InitForXo /\ [][NextDownloads]_vars

\* CommandProcessor.process on every trigger phrase of its table, in whatever
\* mode the phrases before it have left the router.
NextTable == process_call

SpecTable == InitForXo /\ [][NextTable]_vars

\* A listening session that hears a question, with the STOP button: the loop
\* posts what it heard, the Tk thread stops the session and runs what was
\* posted.
NextStopped ==
    \/ NextAskTime
    \/ stop_listening
    \/ stop_listening_posted

SpecStopped == InitForAskTime /\ [][NextStopped]_vars

\* The camera tab: the four buttons, the controller's own start() and stop(),
\* and the threads that open the camera.
NextCamera ==
    \/ start_gestures
    \/ stop_gestures
    \/ GestureController_start_call
    \/ GestureController_stop_call
    \/ GestureThreads
    \/ start_camera_preview
    \/ stop_camera_preview
    \/ PreviewWorkers

SpecCamera == InitForXo /\ [][NextCamera]_vars

\* The consumer with a backend that can raise, and the callers of speak().
NextRenderFail ==
    \/ Speak
    \/ Consumer
    \/ ConsumerFails

InitForRenderFail ==
    InitTtsBounded({"pyttsx3", "gtts"}, MaxSpeak, MaxStops) /\ InitListen /\ InitRouter(Transcripts, TypedTexts)

\* The consumer is a thread of its own (daemon=True, started in __init__): it
\* runs whenever it can take a step.
SpecRenderFail ==
    InitForRenderFail /\ [][NextRenderFail]_vars /\ WF_vars(Consumer \/ ConsumerFails)

SpecListen == InitForListen /\ [][NextListen]_vars

NextRouter ==
    \/ recognized_text
    \/ text_command
    \/ xo_on_close
    \/ voice_form_window_close

NextRouterApi ==
    \/ recognized_text
    \/ text_command
    \/ xo_on_close
    \/ voice_form_window_close
    \/ activate_chatbot_call

SpecRouter == InitForRouter /\ [][NextRouter]_vars

InitForRouterApi ==
    InitTtsBounded({"pyttsx3"}, MaxSpeak, MaxStops) /\ InitListen /\ InitRouter(ChatbotTranscripts, TypedTexts)

SpecRouterApi == InitForRouterApi /\ [][NextRouterApi]_vars

NextForms ==
    \/ recognized_text
    \/ create_folder_button
    \/ move_folder_button
    \/ voice_form_window_close

InitForForms ==
    InitTtsBounded({"pyttsx3"}, MaxSpeak, MaxStops) /\ InitListen /\ InitRouter(FormTranscripts, TypedTexts)

SpecForms == InitForForms /\ [][NextForms]_vars

\* _move_folder_worker comes to its end, with the folder moved or not
move_folder_worker_done ==
    /\ move_thread
    /\ move_thread' = FALSE
    /\ UNCHANGED <<ttsVars, listenVars, histVars, routerVars, obsVars, debounceVars, flagVars, workVars>>

\* The move-folder form by voice and by its button, and the worker of a move.
NextMove ==
    \/ recognized_text
    \/ move_folder_button
    \/ move_folder_worker_done

SpecMove == InitForForms /\ [][NextMove]_vars

\* The gesture thread reads nothing of the router or of the voice engine.
InitForDebounce(elapsed) ==
    /\ InitTtsBounded({"pyttsx3"}, MaxSpeak, MaxStops)
    /\ InitListen
    /\ InitDebounce(elapsed)
    /\ InitFlags
    /\ InitWork
    /\ transcripts = {}
    /\ typed_texts = {}
    /\ voice_form = NoForm
    /\ pending_question = "none"
    /\ conversation_mode = FALSE
    /\ chat_mode_active = FALSE
    /\ xo_game_window = FALSE
    /\ preferences = {}
    /\ heard = ""
    /\ entry = "none"
    /\ calls = <<>>
    /\ said = <<>>
    /\ effects = <<>>
    /\ before = [voice_form |-> FALSE, pending_question |-> FALSE, chat_mode_active |-> FALSE,
                 xo_game_window |-> FALSE]

NextGestures ==
    \/ gesture_callback
    \/ detection_callback
    \/ toggle_capability
    \/ create_folder_button
    \/ voice_form_window_close

SpecGestures == InitForForms /\ [][NextGestures]_vars

NextHandFrames ==
    \/ hand_frame
    \/ toggle_capability

SpecHandFrames == InitForForms /\ [][NextHandFrames]_vars

NextDebounce == run_frame

SpecDebounce == InitForDebounce(MaxElapsed) /\ [][NextDebounce]_vars

NextCooldown == run_frame

SpecCooldown == InitForDebounce(MaxElapsedCooldown) /\ [][NextCooldown]_vars

(***************************************************************************)
(* Claims about the utterance queue and the listening loops                *)
(***************************************************************************)

\* C1: no microphone listening session (listen_for_command, listen_offline) is
\* opened while the TTS consumer is rendering an utterance.
C1_NoListenWhileRendering == ~micOpenedWhileRendering

\* C2: none of the utterances that were queued and not started when
\* stop_speaking was called is rendered afterwards.
C2_DrainedNeverRendered == pendingAtStop \cap rendered = {}

\* C3: an utterance that was being rendered when stop_speaking was called is
\* halted: it is not played to its end.
C3_StopHaltsRender == stopDuringRender \cap finished = {}

C5_StopSafeIdempotent ==
    /\ ~stopRaised
    /\ ui_pc = "idle" =>
          LET once == stop_speaking_run(tts_queue, unfinished_tasks)
              twice == stop_speaking_run(once.queue, once.unfinished)
          IN  /\ ~once.raised
              /\ ~twice.raised
              /\ twice.queue = once.queue
              /\ twice.unfinished = once.unfinished

(***************************************************************************)
(* Claims about the transcript router                                      *)
(***************************************************************************)
\* C6: while a voice form or a pending question is active, a transcript or a
\* typed command is handled by that modal handler and by nothing else: the
\* router invokes exactly one handler for it, the handler of the voice form
\* or of the pending answer.
C6_ModalSuppression ==
    (/\ entry \in {"voice", "typed"}
     /\ Len(Strip(heard)) # 0
     /\ ~before.chat_mode_active
     /\ before.voice_form \/ before.pending_question)
    => /\ Len(calls) = 1
       /\ \/ before.voice_form /\ calls[1][1] = "voice_form_handle"
          \/ before.pending_question /\ calls[1][1] = "handle_pending_answer"

C8_ExclusiveMode ==
    Cardinality({m \in {"PendingAnswer", "VoiceForm", "Chatbot", "GameActive"} :
        \/ m = "PendingAnswer" /\ pending_question # "none"
        \/ m = "VoiceForm" /\ voice_form.mode # "none"
        \/ m = "Chatbot" /\ chat_mode_active
        \/ m = "GameActive" /\ xo_game_window}) <= 1

C10_FirstMatchWins ==
    LET c == Lower(Strip(heard))
        words == Split(c)
        hits == {k \in 1 .. Len(CommandTable) : Contains(c, CommandTable[k][1])}
        first == CHOOSE k \in hits : \A j \in hits : k <= j
    IN  (/\ entry \in {"voice", "typed"}
         /\ ~before.voice_form /\ ~before.pending_question /\ ~before.chat_mode_active
         /\ hits # {}
         /\ ~Contains(c, "search") /\ ~Contains(c, "research")
         /\ ~Contains(c, "tell me about") /\ ~Contains(c, "what is")
         /\ ~Contains(c, "hide") /\ ~Contains(c, "sleep")
         /\ ~(Contains(c, "create") /\ Contains(c, "folder")) /\ ~Contains(c, "new folder")
         /\ ~(Contains(c, "move") /\ Contains(c, "folder")) /\ c # "move"
         /\ words[1] \notin {"download", "move"}
         /\ ~IsCasual(c))
        => /\ Len(calls) \in {1, 2}
           /\ calls[1] = <<CommandTable[first][2], c>>
           /\ Len(calls) = 2 => calls[2][1] = "fallback_handle_command"
           /\ entry = "voice" => calls[1][2] = heard

\* C10 witness: "play a game" contains the keys "play" and, later in the
\* table, "play a game"; the handler of "play" was invoked, once, with the
\* whole text, and nothing else was.
C10_Witness ==
    /\ entry = "voice"
    /\ heard = "play a game"
    /\ ~before.voice_form /\ ~before.pending_question /\ ~before.chat_mode_active
    /\ calls = << <<"play_on_youtube", "play a game">> >>
    /\ said = <<"Playing a game on YouTube, sir.">>

\* C11: when a command handler raises, the spoken error summary is the one
\* and only utterance enqueued for that transcript: whenever the texts passed
\* to speak() for one transcript contain the error summary of process(), they
\* contain nothing else.
C11_ErrorSpokenOnce ==
    (\E i \in 1 .. Len(said) : said[i] = "Error: exception") => Len(said) = 1

\* C12: in every state of the create-folder and of the move-folder form, the
\* transcript "cancel", "stop" or "never mind" ends the form, is answered by
\* the one utterance "Cancelled." and starts no creation and no move.
C12_CancelEndsForm ==
    voice_form.mode # "none" =>
        \A text \in {"cancel", "stop", "never mind"}, e \in Envs :
            LET out == handle_recognized_text(RouterState, text, e)
            IN  /\ out.voice_form = NoForm
                /\ out.said = <<"Cancelled.">>
                /\ out.effects = <<>>

C12_Witness ==
    /\ entry = "voice"
    /\ heard = "never mind"
    /\ before.voice_form
    /\ calls = << <<"voice_form_handle", "never mind">> >>
    /\ voice_form = NoForm
    /\ said = <<"Cancelled.">>
    /\ effects = <<>>

C14_RePromptKeepsForm ==
    voice_form.mode # "none" =>
        \A text \in transcripts, e \in Envs :
            LET out == handle_recognized_text(RouterState, text, e)
                low == Lower(Strip(text))
                cancels == Contains(low, "cancel") \/ low \in {"stop", "never mind", "nevermind"}
                loc == location_from_speech(text)
                path == expanduser(IF loc # "" THEN loc ELSE Strip(text))
                step == voice_form.step
                prompt ==
                    IF step = "name" /\ extract_folder_name(text) = ""
                    THEN "I didn't catch the name. Please say it again."
                    ELSE IF step = "location_or_confirm" /\ ~Contains(low, "confirm")
                              /\ low \notin {"create", "go ahead"} /\ loc = ""
                    THEN "Say desktop, downloads, documents, home, or confirm."
                    ELSE IF step = "source" /\ ~isdir(path, e)
                    THEN "That source folder does not exist. Please say the full path again."
                    ELSE IF step = "destination" /\ ~isdir(path, e)
                    THEN "That destination folder does not exist. Please say the full path again."
                    ELSE IF step = "confirm" /\ ~Contains(low, "confirm")
                              /\ low \notin {"move", "go ahead"}
                    THEN "Say confirm to move, or cancel."
                    ELSE ""
            IN  (~cancels /\ prompt # "") =>
                    /\ out.voice_form = voice_form
                    /\ out.said = <<prompt>>
                    /\ out.effects = <<>>

C14_Witness ==
    /\ entry = "voice"
    /\ heard = "call it"
    /\ before.voice_form
    /\ voice_form.mode = "create_folder" /\ voice_form.step = "name" /\ voice_form.name = ""
    /\ said = <<"I didn't catch the name. Please say it again.">>
    /\ effects = <<>>

\* C15 as stated: while a voice form is active, a request to start a form,
\* from either button or from a transcript with the trigger words, leaves the
\* form as it is and enqueues no utterance.
C15_StartIgnoredAnyTrigger ==
    voice_form.mode # "none" =>
        \A e \in Envs :
            /\ voice_form_start_create_folder(RouterState, e).voice_form = voice_form
            /\ voice_form_start_create_folder(RouterState, e).said = <<>>
            /\ voice_form_start_move_folder(RouterState).voice_form = voice_form
            /\ voice_form_start_move_folder(RouterState).said = <<>>
            /\ \A text \in {"create folder", "move folder"} :
                  /\ handle_recognized_text(RouterState, text, e).voice_form = voice_form
                  /\ handle_recognized_text(RouterState, text, e).said = <<>>

\* C15, amended: while a voice form is active, the two start buttons leave the
\* form as it is and enqueue no utterance; a transcript with the trigger words
\* starts no second form either: it is handed to the active form as the answer
\* of its current step and the kind of the form stays.
C15_StartIgnoredButton ==
    voice_form.mode # "none" =>
        \A e \in Envs :
            /\ voice_form_start_create_folder(RouterState, e).voice_form = voice_form
            /\ voice_form_start_create_folder(RouterState, e).said = <<>>
            /\ voice_form_start_move_folder(RouterState).voice_form = voice_form
            /\ voice_form_start_move_folder(RouterState).said = <<>>
            /\ \A text \in {"create folder", "move folder"} :
                  LET out == handle_recognized_text(RouterState, text, e)
                  IN  /\ out.calls = << <<"voice_form_handle", text>> >>
                      /\ out.voice_form.mode \in {voice_form.mode, "none"}

C15_Witness ==
    /\ entry = "button"
    /\ before.voice_form
    /\ calls = << <<"voice_form_start_move_folder", "">> >>
    /\ voice_form.mode = "create_folder" /\ voice_form.step = "location_or_confirm"
    /\ voice_form.name = "reports"
    /\ said = <<>>

\* C16: two cooldown-gated callbacks (closed fist, three-finger open hand,
\* open palm of four or more fingers) are never dispatched less than
\* cooldown_s apart, whatever the frames are.
C16_CooldownBetweenGated ==
    prevGatedAt # -1 => lastGatedAt - prevGatedAt >= cooldown_s

\* a fist still held less than cooldown_s after its callback draws no second one
C16_Witness ==
    /\ sample = 0
    /\ lastGatedKind = "on_closed_fist"
    /\ lastGatedAt < now
    /\ now - lastGatedAt < cooldown_s
    /\ emitted = <<"on_detection">>

\* C17: a run of two-finger frames that lasted less than two_finger_hold_s
\* has drawn exactly one tap callback and no hold callback, however it ended.
C17_ShortRunOneTap ==
    (settled.start # -1 /\ settled.end - settled.start < two_finger_hold_s) =>
        (settled.taps = 1 /\ settled.holds = 0)

\* C18: a run of two-finger frames that lasted two_finger_hold_s or more has
\* drawn exactly one hold callback and no tap callback.
C18_LongRunOneHold ==
    (settled.start # -1 /\ settled.last - settled.start >= two_finger_hold_s) =>
        (settled.holds = 1 /\ settled.taps = 0)

\* C19: while a voice form is active, a gesture callback performs none of the
\* mapped actions (start or stop listening, screenshot, click, view switch,
\* window drag or close).
C19_NoGestureActionInForm ==
    (entry = "gesture" /\ before.voice_form) => calls = <<>>

\* C20: a gesture callback performs an action only while the enable flag of
\* that action is set; start listening, the click and the view switch have no
\* flag that could be set.
C20_GestureActionsOptIn ==
    entry = "gesture" =>
        \A i \in 1 .. Len(calls) :
            LET a == calls[i][1]
            IN  CASE a = "take_screenshot" -> screenshot_enabled
                  [] a = "window_drag_update" -> window_move_enabled
                  [] a = "close_active_window" -> close_window_enabled
                  [] a = "mouse_move_from_norm" -> mouse_control_enabled
                  [] a = "stop_listening" -> fist_action \in {"Stop listening", "Both"}
                  [] OTHER -> FALSE

\* C21: a frame with four fingers never closes the focused window; the window
\* is closed only by a frame with five fingers.
C21_FourDragsFiveCloses ==
    (entry = "frame" /\ \E i \in 1 .. Len(calls) : calls[i][1] = "close_active_window")
        => heard = "5 fingers (close window)"

\* C22: a listen cycle that ends in a timeout or a recognizer error enqueues no
\* utterance: the step in which listen_for_command returns leaves the
\* utterance queue as it was.
C22_SilentRecognitionFailure ==
    [][\A i \in Loops :
          (loop_pc[i] \in {"listen", "mic"} /\ loop_pc'[i] = "top") => tts_queue' = tts_queue]_vars

\* C23: stop_listening calls stop_speaking before it changes the listening
\* state: a step that clears is_listening is made by a stop_listening that has
\* gone through stop_speaking (ui_op names the caller of stop_speaking).
C23_StopListeningDrainsFirst ==
    [][(is_listening /\ ~is_listening') => ui_op = "stop_listening"]_vars

\* C24: hide_interface stops listening, then stops and drains the utterance
\* queue, and enqueues no utterance after the drain: when it returns the
\* listening flag is clear, stop_event is set and nothing was passed to speak().
C24_CancellationOrder ==
    (entry \in {"voice", "typed"} /\ \E i \in 1 .. Len(calls) : calls[i][1] = "hide_interface")
        => (~is_listening /\ stop_event /\ said = <<>>)

\* C26: start_listening while already listening is a no-op: the steps of that
\* call leave the contents of the utterance queue as they were.
C26_IdempotentStartListening ==
    [][(is_listening /\ ui_op = "start_listening" /\ ui_pc = "drain" /\ ui_pc' # "drain")
          => tts_queue' = tts_queue]_vars

\* C28: speak() with an empty or whitespace-only text leaves the utterance
\* queue unchanged; speak() with any other text appends exactly one utterance,
\* whatever the length of the queue (put() on an unbounded queue never blocks).
C28_SpeakBlankNoOp ==
    [][\A t \in Texts :
          (speak(t) /\ nextId <= speakBudget) =>
              IF t \in {"", "  "}
              THEN tts_queue' = tts_queue /\ nextId' = nextId
              ELSE tts_queue' = Append(tts_queue, nextId) /\ nextId' = nextId + 1]_vars

\* C28 witness: two utterances are queued behind one another, put there by two
\* speak() calls with the consumer not yet at the first
C28_Witness == Len(tts_queue) = 2 /\ nextId = 3 /\ rendered = {}

\* C29: there is never more than one live listen_loop thread.
C29_OneListenLoop == Cardinality({i \in Loops : loop_pc[i] # "dead"}) <= 1

\* C30: the stop_listening callback posted by an exiting listen_loop never
\* turns off a listening session: when it runs, is_listening is already clear.
C30_PostedStopKeepsSession ==
    [][(ui_queue # <<>> /\ Head(ui_queue) = "stop_listening" /\ ui_queue' = Tail(ui_queue))
          => is_listening' = is_listening]_vars

\* C27: a render that raises does not stop the queue: the utterance is over
\* (played to its end or failed), the consumer goes back to the queue, and
\* every utterance that is queued, one queued after a failure included, is
\* dequeued and rendered in its turn.
C27_RenderFailureKeepsQueue ==
    \A id \in 1 .. MaxSpeak :
        (id \in Range(tts_queue)) ~> (id \in finished \cup renderFailed)

\* C27 witness: the render of one utterance raised and a later utterance was
\* played to its end
C27_Witness == \E id \in renderFailed : \E later \in finished : later > id

\* C25: after the open hand has started listening, the transcript "what is the
\* time" causes exactly one speak() call, with the time in its text, and that
\* utterance is rendered: it is cut off only by a stop_speaking call made
\* while it was queued or being rendered.
C25_AskTimeIsRendered ==
    /\ entry = "voice" => (Len(said) = 1 /\ Contains(said[1], "09:30 AM"))
    /\ halted \subseteq (pendingAtStop \cup stopDuringRender)

\* C31: a stop request issued earlier never cuts short a later utterance: the
\* consumer halts the utterance it plays only when a stop_speaking call was
\* made while that utterance was queued or being rendered.  (In these
\* behaviours speak() is called by the Tk thread only, so never during a
\* stop_speaking call.)
C31_SpeechRecoversAfterStop ==
    [][\A c \in Consumers :
          (tts_cur[c] \in halted' /\ tts_cur[c] \notin halted)
              => tts_cur[c] \in (pendingAtStop \cup stopDuringRender)]_vars

\* C32: no thread but the Tk thread writes the router's mode state: the step
\* with which a disable_conv_mode thread ends leaves conversation_mode (and
\* the voice form, the pending question and the chat mode) as they were.
C32_ModeWrittenByUiThreadOnly ==
    [][conv_threads' < conv_threads
          => UNCHANGED <<voice_form, pending_question, conversation_mode, chat_mode_active>>]_vars

\* C39: on the board the number of X marks minus the number of O marks is 0
\* or 1.
C39_XoTurnOrder ==
    LET xs == Cardinality({c \in Cells : board[c] = "X"})
        os == Cardinality({c \in Cells : board[c] = "O"})
    IN  xs - os \in {0, 1}

\* C33: at most one component holds the camera open at any time: never a
\* gesture thread and a preview worker, or two of either, together.
C33_ExclusiveCamera == Cardinality(CameraHolders) <= 1

\* C40: after the controller's stop() and then start(), the controller is not
\* left stopped: once start() has returned, the stop flag of the controller
\* is clear and its thread is one that was started and not told to stop.
C40_RestartRuns ==
    (gesture_controller # 0 /\ gc_op = "start")
        => /\ ~ctl_stop[gesture_controller]
           /\ ctl_thread[gesture_controller] # 0

\* C38: when the move-folder form is confirmed and "Moving now." is spoken,
\* exactly one move worker was started, for the source and the destination
\* that start_folder_move was called with.
C38_ConfirmStartsMove ==
    LET calls_ == {k \in 1 .. Len(effects) : StartsWith(effects[k], "start_folder_move ")}
        workers == {k \in 1 .. Len(effects) : StartsWith(effects[k], "move_folder_worker ")}
    IN  "Moving now." \in Range(said)
            => /\ Cardinality(workers) = 1
               /\ \A k \in workers : \E j \in calls_ :
                     SubSeq(effects[k], 20, Len(effects[k])) = SubSeq(effects[j], 19, Len(effects[j]))

\* C37: whenever the download queue is not empty, a worker thread that will
\* pop from it is alive: one at the top of its loop or inside a download.
C37_NoStrandedDownload == yt_queue # <<>> => yt_pc \in {"top", "download"}

C34_EveryKeyReachesItsHandler ==
    (/\ entry = "process"
     /\ ~before.voice_form /\ ~before.pending_question
     /\ ~before.chat_mode_active /\ ~before.xo_game_window)
    => /\ calls # <<>>
       /\ calls[1][1] = HandlerOf(heard)

\* C36: no transcript of the listening loop is delivered to
\* _handle_recognized_text once stop_listening has executed: a posted
\* transcript is handled only while is_listening is true.
C36_NoCommandAfterStop ==
    [][(/\ ui_queue # <<>>
        /\ Head(ui_queue) = "handle_recognized_text"
        /\ ui_queue' = Tail(ui_queue)) => is_listening]_vars

====
